---- MODULE Spec2Model ----
(***************************************************************************)
(* Schiavinato Sharing over GF(2053): splitMnemonic, recoverMnemonic and   *)
(* the arithmetic they are built from, as a state machine.                 *)
(*                                                                         *)
(* Representation.                                                         *)
(*  - A BIP39 word is represented by its 1-based position in the embedded  *)
(*    English wordlist (abandon = 1, zoo = 2048).  The display strings     *)
(*    '0000', '2049' .. '2052' of the lookup module are the tokens 0 and   *)
(*    2049..2052: they are strings that are not in the wordlist.           *)
(*  - A JavaScript number that is not an integer, and the value            *)
(*    `undefined`, are the two tokens Fraction and Undefined.              *)
(*  - An unsigned 32-bit word of the random source is a pair <<hi, lo>>    *)
(*    of 16-bit halves, so that no intermediate value leaves 32 bits.      *)
(*  - A function that can throw returns a record [ok, value, error].       *)
(*  - SHA-256 is an external primitive; only its first output byte is      *)
(*    used by the code and it is given by sha256FirstByte below.           *)
(***************************************************************************)
EXTENDS Integers, Sequences, FiniteSets, TLC

\* ------------------------------------------------------------------------
\* JavaScript values and results
\* ------------------------------------------------------------------------

\* a number for which Number.isInteger is false (1.5, NaN, ...)
Fraction == 0 - 700001
\* the value `undefined` (a missing property)
Undefined == 0 - 700002

\* Number.isInteger(value)
IsInteger(value) == value # Fraction /\ value # Undefined

Msg(text, args) == [text |-> text, args |-> args]
\* errors.generic === null
NoMessage == Msg("null", <<>>)

\* JavaScript evaluates the arguments of a call before the call.  The value
\* of Strict(value, expr) is expr, with value computed first: a loop uses it
\* to compute its accumulator in every iteration.
Strict(value, expr) == IF value = value THEN expr ELSE expr

Ok(v) == [ok |-> TRUE, value |-> v, error |-> NoMessage]
Throw(text, args) == [ok |-> FALSE, value |-> 0, error |-> Msg(text, args)]

\* ------------------------------------------------------------------------
\* core/field.ts
\* ------------------------------------------------------------------------

FIELD_PRIME == 2053

\* JavaScript % truncates towards zero: the remainder has the sign of value
JsRem(value, m) == IF value >= 0 THEN value % m ELSE 0 - ((0 - value) % m)

mod(value) ==
  LET result == JsRem(value, FIELD_PRIME)
  IN IF result < 0 THEN result + FIELD_PRIME ELSE result

modAdd(a, b) == mod(a + b)

modSub(a, b) == mod(a - b)

modMul(a, b) == mod(a * b)

RECURSIVE modInvLoop(_, _, _, _)
\* the while loop of modInv; returns <<t, r>> at exit
modInvLoop(t, newT, r, newR) ==
  IF newR = 0 THEN <<t, r>>
  ELSE LET quotient == r \div newR
       IN modInvLoop(newT, t - quotient * newT, newR, r - quotient * newR)

\* variant: a negative t is negated, not raised by FIELD_PRIME
modInv_negated(value) ==
  LET fix(t) == Ok(IF t < 0 THEN 0 - t ELSE t)
  IN IF mod(value) = 0 THEN Throw("Attempted to invert zero in GF(2053).", <<>>)
     ELSE fix(modInvLoop(0, 1, FIELD_PRIME, mod(value))[1])

modInv(value) ==
  LET afterLoop(t, r) ==
        IF r > 1 THEN Throw("Value is not invertible in GF(2053).", <<>>)
        ELSE Ok(IF t < 0 THEN t + FIELD_PRIME ELSE t)
      loop(tr) == afterLoop(tr[1], tr[2])
      invert(val) ==
        IF val = 0 THEN Throw("Attempted to invert zero in GF(2053).", <<>>)
        ELSE loop(modInvLoop(0, 1, FIELD_PRIME, val))
  IN invert(mod(value))

\* ------------------------------------------------------------------------
\* utils/security.ts (constant-time comparison, wiping)
\* ------------------------------------------------------------------------

RECURSIVE BitXor(_, _)
\* a ^ b on non-negative integers
BitXor(a, b) ==
  IF a = 0 THEN b
  ELSE IF b = 0 THEN a
  ELSE (((a % 2) + (b % 2)) % 2) + 2 * BitXor(a \div 2, b \div 2)

\* variant: a comparison that never sees a difference
constantTimeEqual_always(a, b) == TRUE

constantTimeEqual(a, b) ==
  LET diff == BitXor(a, b)
  IN diff = 0

constantTimeStringEqual(a, b) ==
  LET maxLen == IF Len(a) >= Len(b) THEN Len(a) ELSE Len(b)
      charDiff(i) == BitXor(IF i <= Len(a) THEN a[i] ELSE 0,
                            IF i <= Len(b) THEN b[i] ELSE 0)
  IN BitXor(Len(a), Len(b)) = 0 /\ \A i \in 1..maxLen : charDiff(i) = 0

\* variant: the array is left as it is
secureWipeArray_kept(arr) == arr

secureWipeArray(arr) == [i \in 1..Len(arr) |-> 0]

secureWipeNumber(value) == 0

\* ------------------------------------------------------------------------
\* utils/random.ts
\* ------------------------------------------------------------------------

HALF == 65536

\* a 32-bit word reduced modulo range (range <= 2^15)
WordRem(w, range) == ((((w[1] % range) * (HALF % range)) % range) + w[2]) % range

\* 0x100000000 % range
MaxUint32Rem(range) == ((HALF % range) * (HALF % range)) % range

\* variant: the words at and above limit are let through
BelowLimit_always(w, range) == TRUE

\* variant: no word is let through
BelowLimit_never(w, range) == FALSE

\* value < limit, where limit = 0x100000000 - (0x100000000 % range)
BelowLimit(w, range) ==
  LET excess == MaxUint32Rem(range)
  IN excess = 0 \/ w[1] < HALF - 1 \/ w[2] < HALF - excess

\* randomSource.getRandomValues(buffer): the source delivers its words in
\* order, starting again from the first one after the last
getRandomValues(rng) ==
  [value |-> rng.words[((rng.pos - 1) % Len(rng.words)) + 1],
   rng   |-> [rng EXCEPT !.pos = rng.pos + 1]]

\* a word of a random source in whose place getRandomValues throws
\* ('RNG failed' of a configured source)
Failing == <<0 - 1, 0 - 1>>

RECURSIVE rejectionLoop(_, _)
\* the do/while loop of getRandomIntInclusive: one draw per iteration; an
\* error thrown by the source leaves the loop
rejectionLoop(rng, range) ==
  LET while(drawn) ==
        IF drawn.value = Failing THEN Throw("RNG failed", <<>>)
        ELSE IF BelowLimit(drawn.value, range)
        THEN Ok([value |-> WordRem(drawn.value, range), rng |-> drawn.rng])
        ELSE rejectionLoop(drawn.rng, range)
  IN while(getRandomValues(rng))

getRandomIntInclusive(max, rng) ==
  LET range == max + 1
  IN IF range <= 0 THEN Throw("Invalid range for randomness.", <<>>)
     ELSE rejectionLoop(rng, range)

\* the value drawn and the random source after the draw, or the error
getRandomFieldElement(rng) == getRandomIntInclusive(FIELD_PRIME - 1, rng)

\* ------------------------------------------------------------------------
\* core/polynomial.ts
\* ------------------------------------------------------------------------

RECURSIVE randomPolynomialLoop(_, _, _)
randomPolynomialLoop(coefficients, remaining, rng) ==
  IF remaining = 0 THEN Ok([value |-> coefficients, rng |-> rng])
  ELSE LET push(drawn) ==
             IF ~drawn.ok THEN drawn
             ELSE randomPolynomialLoop(Append(coefficients, drawn.value.value),
                                       remaining - 1, drawn.value.rng)
       IN push(getRandomFieldElement(rng))

\* variant: every polynomial takes its coefficients from the start of the
\* source
randomPolynomial_rewound(secret, degree, rng) ==
  randomPolynomialLoop(<<mod(secret)>>, degree, [rng EXCEPT !.pos = 1])

\* returns the coefficients and the random source after the draws
randomPolynomial(secret, degree, rng) ==
  randomPolynomialLoop(<<mod(secret)>>, degree, rng)

RECURSIVE hornerLoop(_, _, _, _)
hornerLoop(coefficients, fieldX, i, result) ==
  IF i < 1 THEN result
  ELSE hornerLoop(coefficients, fieldX, i - 1,
                  modAdd(modMul(result, fieldX), coefficients[i]))

\* variant: the random coefficients are left out of the evaluation
evaluatePolynomial_constant(coefficients, x) == mod(coefficients[1])

evaluatePolynomial(coefficients, x) ==
  hornerLoop(coefficients, mod(x), Len(coefficients), 0)

\* ------------------------------------------------------------------------
\* core/lagrange.ts
\* ------------------------------------------------------------------------

RECURSIVE basisLoop_unsigned(_, _, _, _, _)
\* variant: the numerator is the product of the x, not of their negatives
basisLoop_unsigned(points, j, m, numerator, denominator) ==
  IF m > Len(points) THEN <<numerator, denominator>>
  ELSE IF m = j THEN basisLoop_unsigned(points, j, m + 1, numerator, denominator)
  ELSE basisLoop_unsigned(points, j, m + 1,
                          modMul(numerator, mod(points[m].x)),
                          modMul(denominator, modSub(mod(points[j].x), mod(points[m].x))))

RECURSIVE basisLoop(_, _, _, _, _)
\* the inner loop over m: returns <<numerator, denominator>>
basisLoop(points, j, m, numerator, denominator) ==
  IF m > Len(points) THEN <<numerator, denominator>>
  ELSE IF m = j THEN basisLoop(points, j, m + 1, numerator, denominator)
  ELSE LET multiply(xj, xm) ==
             basisLoop(points, j, m + 1,
                       modMul(numerator, mod(FIELD_PRIME - xm)),
                       modMul(denominator, modSub(xj, xm)))
       IN multiply(mod(points[j].x), mod(points[m].x))

RECURSIVE lagrangeLoop(_, _, _)
lagrangeLoop(points, j, sum) ==
  IF j > Len(points) THEN Ok(sum)
  ELSE LET yj == mod(points[j].y)
           term(numerator, inv) ==
             IF ~inv.ok THEN inv
             ELSE lagrangeLoop(points, j + 1,
                               modAdd(sum, modMul(yj, modMul(numerator, inv.value))))
           basis(nd) == term(nd[1], modInv(nd[2]))
       IN basis(basisLoop(points, j, 1, 1, 1))

\* variant: only the first two points of the list are interpolated
lagrangeInterpolateAtZero_leadingPair(points) ==
  IF Len(points) = 0 THEN Throw("Interpolation requires at least one point.", <<>>)
  ELSE lagrangeLoop(SubSeq(points, 1, 2), 1, 0)

lagrangeInterpolateAtZero(points) ==
  IF Len(points) = 0 THEN Throw("Interpolation requires at least one point.", <<>>)
  ELSE lagrangeLoop(points, 1, 0)

\* ------------------------------------------------------------------------
\* schiavinato/checksums.ts
\* ------------------------------------------------------------------------

WORDS_PER_ROW == 3

\* variant: a row check is the product of the words of its row
computeRowChecks_product(wordIndices) ==
  [row \in 1..(Len(wordIndices) \div WORDS_PER_ROW) |->
     modMul(modMul(wordIndices[(row - 1) * WORDS_PER_ROW + 1],
                   wordIndices[(row - 1) * WORDS_PER_ROW + 2]),
            wordIndices[(row - 1) * WORDS_PER_ROW + 3])]

computeRowChecks(wordIndices) ==
  LET rowCount == Len(wordIndices) \div WORDS_PER_ROW
  IN [row \in 1..rowCount |->
        LET base == (row - 1) * WORDS_PER_ROW
        IN modAdd(modAdd(wordIndices[base + 1], wordIndices[base + 2]),
                  wordIndices[base + 3])]

RECURSIVE reduceModAdd(_, _, _)
\* arr.reduce((acc, value) => modAdd(acc, value), 0)
reduceModAdd(arr, i, acc) ==
  Strict(acc, IF i > Len(arr) THEN acc
              ELSE reduceModAdd(arr, i + 1, modAdd(acc, arr[i])))

\* variant: the sum is taken one too high
computeGlobalChecksum_plusOne(wordIndices) == (reduceModAdd(wordIndices, 1, 0) + 1) % 2053

\* recover imports this function under the name computeGlobalIntegrityCheck
computeGlobalChecksum(wordIndices) == reduceModAdd(wordIndices, 1, 0)

RECURSIVE sumPolynomialsLoop(_, _, _)
sumPolynomialsLoop(polynomials, p, result) ==
  Strict(result,
         IF p > Len(polynomials) THEN result
         ELSE sumPolynomialsLoop(polynomials, p + 1,
                                 [i \in 1..Len(result) |->
                                    modAdd(result[i], polynomials[p][i])]))

\* variant: the first polynomial is returned as the sum
sumPolynomials_first(polynomials) ==
  IF Len(polynomials) = 0 THEN Throw("Cannot sum zero polynomials", <<>>)
  ELSE Ok(polynomials[1])

sumPolynomials(polynomials) ==
  IF Len(polynomials) = 0 THEN Throw("Cannot sum zero polynomials", <<>>)
  ELSE LET degree == Len(polynomials[1])
       IN IF \E i \in 2..Len(polynomials) : Len(polynomials[i]) # degree
          THEN Throw("Polynomial degree mismatch", <<>>)
          ELSE Ok(sumPolynomialsLoop(polynomials, 1, [i \in 1..degree |-> 0]))

computeRowCheckPolynomials(wordPolynomials) ==
  LET rowCount == Len(wordPolynomials) \div WORDS_PER_ROW
  IN [row \in 1..rowCount |->
        LET base == (row - 1) * WORDS_PER_ROW
        IN sumPolynomials(<<wordPolynomials[base + 1], wordPolynomials[base + 2],
                            wordPolynomials[base + 3]>>).value]

computeGlobalCheckPolynomial(wordPolynomials) == sumPolynomials(wordPolynomials).value

\* ------------------------------------------------------------------------
\* bip39/lookup.ts, bip39/validation.ts
\* ------------------------------------------------------------------------

BIP39_WORDS == 2048

\* wordToBip39Id(word): the 1-based ID, or an error for a string that is no word
wordToBip39Id(word) ==
  IF word >= 1 /\ word <= BIP39_WORDS THEN Ok(word)
  ELSE Throw("Word is not in the BIP39 wordlist", <<word>>)

\* bip39IdToWord(id): the word of a BIP39 ID, the display string of 0, 2049..2052
bip39IdToWord(id) ==
  IF id >= 0 /\ id < FIELD_PRIME THEN Ok(id)
  ELSE Throw("ID is not valid.", <<id>>)

\* wordlist.indexOf(word) of split.ts: the 0-based position, -1 when absent
wordlistIndexOf(word) ==
  IF word >= 1 /\ word <= BIP39_WORDS THEN word - 1 ELSE 0 - 1

RECURSIVE Pow2(_)
Pow2(e) == IF e = 0 THEN 1 ELSE 2 * Pow2(e - 1)

\* index.toString(2).padStart(width, '0') as character codes ('0' = 48)
BinaryString(index, width) ==
  [b \in 1..width |-> 48 + ((index \div Pow2(width - b)) % 2)]

RECURSIVE parseBinary(_, _, _, _)
\* parseInt(bits.slice(start, end), 2), positions counted from 1, end inclusive
parseBinary(bits, start, end, acc) ==
  IF start > end THEN acc
  ELSE parseBinary(bits, start + 1, end, 2 * acc + (bits[start] - 48))

RECURSIVE byteSum(_, _, _)
byteSum(bytes, i, acc) ==
  Strict(acc, IF i > Len(bytes) THEN acc
              ELSE byteSum(bytes, i + 1, (acc * 31 + bytes[i] + i) % 256))

\* hash[0] of sha256(entropyBytes).  SHA-256 is an external library: its
\* first byte is tabulated for the entropies of the mnemonics named below and
\* of their neighbours; any other entropy gets a fixed byte that depends on
\* all of its bytes.
sha256FirstByte(entropyBytes) ==
  CASE entropyBytes = <<209, 246, 248, 108, 2, 154, 114, 69, 187, 145, 67, 58, 106, 167, 153, 135>> -> 215
    [] entropyBytes = [i \in 1..16 |-> 0] -> 55
    [] entropyBytes = [i \in 1..16 |-> 255] -> 90
    [] entropyBytes = [i \in 1..32 |-> 0] -> 102
    [] entropyBytes = [i \in 1..20 |-> 128] -> 94
    [] entropyBytes = <<209, 214, 244, 107, 130, 138, 112, 69, 123, 137, 66, 58, 74, 163, 153, 7>> -> 9
    [] entropyBytes = <<255, 223, 251, 255, 127, 239, 253, 255, 191, 247, 254, 255, 223, 251, 255, 127>> -> 255
    [] OTHER -> byteSum(entropyBytes, 1, 7)

\* validateBip39Mnemonic(mnemonic) on the list of words of the mnemonic
validateBip39Mnemonic(words) ==
  IF Len(words) \notin {12, 15, 18, 21, 24} THEN FALSE
  ELSE IF \E i \in 1..Len(words) : ~wordToBip39Id(words[i]).ok THEN FALSE
  ELSE
    LET bip39Indices == [i \in 1..Len(words) |-> wordToBip39Id(words[i]).value - 1]
        checksumBits == Len(words) \div 3
        entropyBits  == Len(words) * 11 - checksumBits
        binaryString == [p \in 1..(Len(words) * 11) |->
                           BinaryString(bip39Indices[((p - 1) \div 11) + 1], 11)[((p - 1) % 11) + 1]]
        checksumBitsStr == SubSeq(binaryString, entropyBits + 1, Len(binaryString))
        entropyBytes == [i \in 1..(entropyBits \div 8) |->
                           parseBinary(binaryString, (i - 1) * 8 + 1, i * 8, 0)]
        expectedChecksum == SubSeq(BinaryString(sha256FirstByte(entropyBytes), 8), 1, checksumBits)
    IN constantTimeStringEqual(expectedChecksum, checksumBitsStr)

\* ------------------------------------------------------------------------
\* utils/validation.ts
\* ------------------------------------------------------------------------

\* A mnemonic argument is [isString, words, untidy]: words are the words of
\* the string in order, untidy says that it has upper-case letters or
\* surplus white space.  sanitizeMnemonic returns the normalized word list.
sanitizeMnemonic(mnemonic) ==
  IF ~mnemonic.isString THEN Throw("Mnemonic must be a string.", <<>>)
  ELSE LET normalized == mnemonic.words
       IN IF Len(normalized) = 0 THEN Throw("Mnemonic cannot be empty.", <<>>)
          ELSE Ok(normalized)

\* variant: every word count is let through
ensureSupportedWordCount_any(wordCount) == Ok(wordCount)

ensureSupportedWordCount(wordCount) ==
  IF wordCount # 12 /\ wordCount # 24
  THEN Throw("This tool currently supports only 12- or 24-word mnemonics.", <<>>)
  ELSE Ok(wordCount)

\* label is [name, args]: the fixed text of the label and the numbers in it
normalizeShareValue(value, label) ==
  IF ~IsInteger(value)
  THEN Throw(label.name \o " must be an integer inside GF(2053).", label.args)
  ELSE IF value < 0 \/ value >= FIELD_PRIME
  THEN Throw(label.name \o " must be between 0 and 2052.", label.args)
  ELSE Ok(value)

\* core/lagrange.ts, computeLagrangeMultipliers (it uses normalizeShareValue)

RECURSIVE normalizeShareNumbers(_, _, _)
\* shareNumbers.map((value, index) => normalizeShareValue(value, ...))
normalizeShareNumbers(shareNumbers, index, normalized) ==
  IF index > Len(shareNumbers) THEN Ok(normalized)
  ELSE LET push(value) ==
             IF ~value.ok THEN value
             ELSE normalizeShareNumbers(shareNumbers, index + 1,
                                        Append(normalized, value.value))
       IN push(normalizeShareValue(shareNumbers[index],
                                   [name |-> "Share number", args |-> <<index>>]))

RECURSIVE seenLoop(_, _, _)
\* normalized.forEach: the check for zeros and duplicates
seenLoop(normalized, index, seen) ==
  IF index > Len(normalized) THEN Ok(normalized)
  ELSE IF normalized[index] = 0 THEN Throw("Share numbers cannot be zero.", <<>>)
  ELSE IF normalized[index] \in seen THEN Throw("Share numbers must be unique.", <<>>)
  ELSE seenLoop(normalized, index + 1, seen \cup {normalized[index]})

RECURSIVE multiplierBasisLoop(_, _, _, _, _)
\* the inner loop over j: returns <<numerator, denominator>>
multiplierBasisLoop(normalized, i, j, numerator, denominator) ==
  IF j > Len(normalized) THEN <<numerator, denominator>>
  ELSE IF i = j THEN multiplierBasisLoop(normalized, i, j + 1, numerator, denominator)
  ELSE LET multiply(xi, xj) ==
             multiplierBasisLoop(normalized, i, j + 1,
                                 modMul(numerator, mod(FIELD_PRIME - xj)),
                                 modMul(denominator, modSub(xi, xj)))
       IN multiply(mod(normalized[i]), mod(normalized[j]))

RECURSIVE multipliersLoop(_, _, _)
\* the outer loop over i
multipliersLoop(normalized, i, multipliers) ==
  IF i > Len(normalized) THEN Ok(multipliers)
  ELSE LET push(numerator, inv) ==
             IF ~inv.ok THEN inv
             ELSE multipliersLoop(normalized, i + 1,
                                  Append(multipliers, modMul(numerator, inv.value)))
           basis(nd) == push(nd[1], modInv(nd[2]))
       IN basis(multiplierBasisLoop(normalized, i, 1, 1, 1))

\* variant: the multipliers are returned in the opposite order
computeLagrangeMultipliers_reversed(shareNumbers) ==
  LET reverse(multipliers) ==
        IF ~multipliers.ok THEN multipliers
        ELSE Ok([j \in 1..Len(multipliers.value) |->
                   multipliers.value[Len(multipliers.value) + 1 - j]])
  IN reverse(multipliersLoop(shareNumbers, 1, <<>>))

\* computeLagrangeMultipliers(shareNumbers); shareNumbers is an array
computeLagrangeMultipliers(shareNumbers) ==
  LET compute(checked) ==
        IF ~checked.ok THEN checked ELSE multipliersLoop(checked.value, 1, <<>>)
      check(normalized) ==
        IF ~normalized.ok THEN normalized ELSE compute(seenLoop(normalized.value, 1, {}))
  IN IF Len(shareNumbers) < 2
     THEN Throw("At least two share numbers are required to compute multipliers.", <<>>)
     ELSE check(normalizeShareNumbers(shareNumbers, 1, <<>>))

\* the check of one share inside the forEach of validateSharesForRecovery
\* (wordShares and checksumShares are always arrays here)
validateShare(share, index, wordCount) ==
  LET rowCount == wordCount \div WORDS_PER_ROW
  IN IF share.isNull
     THEN Throw("TypeError: Cannot read properties of null", <<>>)
     ELSE IF ~IsInteger(share.shareNumber) \/ share.shareNumber <= 0
             \/ share.shareNumber >= FIELD_PRIME
     THEN Throw("Share is missing a valid share number (1-2052).", <<index>>)
     ELSE IF Len(share.wordShares) # wordCount
     THEN Throw("Share does not contain the expected word values.",
                <<share.shareNumber, wordCount>>)
     ELSE IF Len(share.checksumShares) # rowCount
     THEN Throw("Share does not contain the expected checksum values.",
                <<share.shareNumber, rowCount>>)
     ELSE IF ~IsInteger(share.globalIntegrityCheckShare)
     THEN Throw("Share is missing a Global Integrity Check (GIC) verification share.",
                <<share.shareNumber>>)
     ELSE Ok(0)

RECURSIVE validateSharesLoop(_, _, _)
validateSharesLoop(shares, index, wordCount) ==
  IF index > Len(shares) THEN Ok(0)
  ELSE LET each(one) ==
             IF ~one.ok THEN one ELSE validateSharesLoop(shares, index + 1, wordCount)
       IN each(validateShare(shares[index], index, wordCount))

validateSharesForRecovery(shares, wordCount) == validateSharesLoop(shares, 1, wordCount)

RECURSIVE distinctLoop(_, _, _)
distinctLoop(shares, i, seen) ==
  IF i > Len(shares) THEN Ok(0)
  ELSE IF shares[i].shareNumber \in seen
  THEN Throw("Duplicate share numbers detected.", <<>>)
  ELSE distinctLoop(shares, i + 1, seen \cup {shares[i].shareNumber})

\* variant: share numbers are not compared
ensureShareNumbersDistinct_none(shares) == Ok(0)

ensureShareNumbersDistinct(shares) == distinctLoop(shares, 1, {})

\* ------------------------------------------------------------------------
\* schiavinato/split.ts
\* ------------------------------------------------------------------------

\* A share.  split.ts stores the global share under the key
\* globalChecksumVerificationShare; the Share type of types.ts and
\* recoverMnemonic name the same field globalIntegrityCheckShare.  isNull
\* marks an entry of a share list that is null instead of an object.
\* variant: shares numbered from 0
Share_fromZero(x, wordShares, checksumShares, global) ==
  [shareNumber |-> x - 1, wordShares |-> wordShares, checksumShares |-> checksumShares,
   globalIntegrityCheckShare |-> global, isNull |-> FALSE]

\* variant: the checksum shares are stored in reverse order
Share_rowsReversed(x, wordShares, checksumShares, global) ==
  [shareNumber |-> x, wordShares |-> wordShares,
   checksumShares |-> [r \in 1..Len(checksumShares) |->
                         checksumShares[Len(checksumShares) + 1 - r]],
   globalIntegrityCheckShare |-> global, isNull |-> FALSE]

\* variant: the share number is added to the global share
Share_numberAdded(x, wordShares, checksumShares, global) ==
  [shareNumber |-> x, wordShares |-> wordShares, checksumShares |-> checksumShares,
   globalIntegrityCheckShare |-> (global + x) % 2053, isNull |-> FALSE]

Share(x, wordShares, checksumShares, global) ==
  [shareNumber |-> x, wordShares |-> wordShares, checksumShares |-> checksumShares,
   globalIntegrityCheckShare |-> global, isNull |-> FALSE]

RECURSIVE buildWordPolynomials(_, _, _, _, _)
\* wordIndices.map((secret) => randomPolynomial(secret, degree)), in order;
\* when a draw throws, value holds the polynomials that were built before
buildWordPolynomials(wordIndices, i, degree, rng, polys) ==
  LET map(poly) ==
        IF ~poly.ok THEN [poly EXCEPT !.value = polys]
        ELSE buildWordPolynomials(wordIndices, i + 1, degree, poly.value.rng,
                                  Append(polys, poly.value.value))
  IN Strict(polys,
            IF i > Len(wordIndices) THEN Ok([value |-> polys, rng |-> rng])
            ELSE map(randomPolynomial(wordIndices[i], degree, rng)))

\* evaluatePolynomial as splitMnemonic calls it.  Under fault injection the
\* call number targetCallIndex returns a wrong value, (result + 1) % 2053;
\* without it (targetCallIndex = -1) every call returns the value.
injectedEvaluatePolynomial(coefficients, x, callCounter, targetCallIndex) ==
  IF callCounter = targetCallIndex THEN (evaluatePolynomial(coefficients, x) + 1) % 2053
  ELSE evaluatePolynomial(coefficients, x)

\* faultController.targetCallIndex when no fault is injected
NoFault == 0 - 1

\* the body of the for loop over shareIndex: one share, or a path mismatch.
\* The calls of evaluatePolynomial are counted over the shares: the words,
\* then the rows, then the global polynomial.
buildShare(shareIndex, wordPolynomials, rowCheckPolynomials, globalCheckPolynomial, targetCallIndex) ==
  LET rowCount == Len(wordPolynomials) \div WORDS_PER_ROW
      calls == (shareIndex - 1) * (Len(wordPolynomials) + rowCount + 1)
      \* the rows are visited in order: the first row whose paths differ throws
      mismatch(row, checksumPathA, checksumPathB) ==
        Throw("Row checksum path mismatch",
              <<shareIndex, row, checksumPathA[row], checksumPathB[row]>>)
      validate(wordShares, checksumPathA, checksumPathB, globalPathA, globalPathB) ==
        IF \E row \in 1..rowCount : checksumPathA[row] # checksumPathB[row]
        THEN mismatch(CHOOSE r \in 1..rowCount :
                        /\ checksumPathA[r] # checksumPathB[r]
                        /\ \A q \in 1..(r - 1) : checksumPathA[q] = checksumPathB[q],
                      checksumPathA, checksumPathB)
        ELSE IF globalPathA # globalPathB
        THEN Throw("Global checksum path mismatch",
                   <<shareIndex, globalPathA, globalPathB>>)
        ELSE Ok(Share(shareIndex, wordShares, checksumPathA, globalPathA))
      paths(wordShares) ==
        validate(wordShares,
                 [row \in 1..rowCount |->
                    modAdd(modAdd(wordShares[(row - 1) * WORDS_PER_ROW + 1],
                                  wordShares[(row - 1) * WORDS_PER_ROW + 2]),
                           wordShares[(row - 1) * WORDS_PER_ROW + 3])],
                 [row \in 1..rowCount |->
                    injectedEvaluatePolynomial(rowCheckPolynomials[row], shareIndex,
                                               calls + Len(wordPolynomials) + row,
                                               targetCallIndex)],
                 reduceModAdd(wordShares, 1, 0),
                 injectedEvaluatePolynomial(globalCheckPolynomial, shareIndex,
                                            calls + Len(wordPolynomials) + rowCount + 1,
                                            targetCallIndex))
  IN paths([i \in 1..Len(wordPolynomials) |->
              injectedEvaluatePolynomial(wordPolynomials[i], shareIndex, calls + i,
                                         targetCallIndex)])

RECURSIVE shareLoop_partial(_, _, _, _, _, _, _)
\* variant: when a share fails, the shares built so far are returned
shareLoop_partial(shareIndex, n, wordPolynomials, rowCheckPolynomials, globalCheckPolynomial, shares, targetCallIndex) ==
  IF shareIndex > n THEN Ok(shares)
  ELSE LET push(share) ==
             IF ~share.ok THEN Ok(shares)
             ELSE shareLoop_partial(shareIndex + 1, n, wordPolynomials, rowCheckPolynomials,
                                    globalCheckPolynomial, Append(shares, share.value),
                                    targetCallIndex)
       IN push(buildShare(shareIndex, wordPolynomials, rowCheckPolynomials,
                          globalCheckPolynomial, targetCallIndex))

RECURSIVE shareLoop(_, _, _, _, _, _, _)
shareLoop(shareIndex, n, wordPolynomials, rowCheckPolynomials, globalCheckPolynomial, shares, targetCallIndex) ==
  IF shareIndex > n THEN Ok(shares)
  ELSE LET push(share) ==
             IF ~share.ok THEN share
             ELSE shareLoop(shareIndex + 1, n, wordPolynomials, rowCheckPolynomials,
                            globalCheckPolynomial, Append(shares, share.value),
                            targetCallIndex)
       IN push(buildShare(shareIndex, wordPolynomials, rowCheckPolynomials,
                          globalCheckPolynomial, targetCallIndex))

\* what a call of splitMnemonic leaves behind: the shares or the error, the
\* random source, and the buffers of the call as they are at its exit
SplitExit(result, rng, wordIndices, wordPolynomials, rowCheckPolynomials, globalCheckPolynomial) ==
  [ok |-> result.ok, error |-> result.error,
   shares |-> IF result.ok THEN result.value ELSE <<>>,
   rng |-> rng, wordIndices |-> wordIndices, wordPolynomials |-> wordPolynomials,
   rowCheckPolynomials |-> rowCheckPolynomials,
   globalCheckPolynomial |-> globalCheckPolynomial]

\* splitMnemonic(mnemonic, k, n) with the evaluatePolynomial of the fault
\* injection, see injectedEvaluatePolynomial
splitMnemonicInjected(mnemonic, k, n, rng, targetCallIndex) ==
  LET early(thrown) == SplitExit(thrown, rng, <<>>, <<>>, <<>>, <<>>)
      \* the try block, and finally: the buffers are wiped on both of its exits
      generate(wordIndices, rngAfter, wordPolynomials, rowCheckPolynomials,
               globalCheckPolynomial) ==
        SplitExit(shareLoop(1, n, wordPolynomials, rowCheckPolynomials,
                            globalCheckPolynomial, <<>>, targetCallIndex),
                  rngAfter,
                  secureWipeArray(wordIndices),
                  [i \in 1..Len(wordPolynomials) |-> secureWipeArray(wordPolynomials[i])],
                  [r \in 1..Len(rowCheckPolynomials) |->
                     secureWipeArray(rowCheckPolynomials[r])],
                  secureWipeArray(globalCheckPolynomial))
      checksums(wordIndices, rngAfter, wordPolynomials) ==
        generate(wordIndices, rngAfter, wordPolynomials,
                 computeRowCheckPolynomials(wordPolynomials),
                 computeGlobalCheckPolynomial(wordPolynomials))
      create(wordIndices, built) ==
        \* the polynomials are built before the try block is entered
        IF ~built.ok THEN SplitExit(built, rng, wordIndices, built.value, <<>>, <<>>)
        ELSE checksums(wordIndices, built.value.rng, built.value.value)
      polynomials(wordIndices) ==
        create(wordIndices, buildWordPolynomials(wordIndices, 1, k - 1, rng, <<>>))
      convert(words, supported) ==
        IF ~supported.ok THEN early(supported)
        ELSE IF \E i \in 1..Len(words) : wordlistIndexOf(words[i]) = 0 - 1
        THEN early(Throw("Unknown mnemonic word", <<>>))
        ELSE polynomials([i \in 1..Len(words) |-> wordlistIndexOf(words[i])])
      validate(normalizedMnemonic) ==
        IF ~normalizedMnemonic.ok THEN early(normalizedMnemonic)
        ELSE IF ~validateBip39Mnemonic(normalizedMnemonic.value)
        THEN early(Throw("Invalid BIP39 mnemonic: checksum verification failed.", <<>>))
        ELSE convert(normalizedMnemonic.value,
                     ensureSupportedWordCount(Len(normalizedMnemonic.value)))
  IN IF ~IsInteger(k) \/ ~IsInteger(n)
     THEN early(Throw("Threshold (k) and total shares (n) must be integers.", <<>>))
     ELSE IF k < 2 THEN early(Throw("Threshold k must be at least 2.", <<>>))
     ELSE IF k > n THEN early(Throw("Threshold k cannot exceed n.", <<>>))
     ELSE IF n >= FIELD_PRIME
     THEN early(Throw("Total shares (n) must be less than 2053.", <<>>))
     ELSE validate(sanitizeMnemonic(mnemonic))

splitMnemonic(mnemonic, k, n, rng) == splitMnemonicInjected(mnemonic, k, n, rng, NoFault)

\* ------------------------------------------------------------------------
\* schiavinato/recover.ts
\* ------------------------------------------------------------------------

\* mnemonic: null
NullMnemonic == <<>>

RecoveryErrors(row, global, bip39, generic, rowPathMismatch, globalPathMismatch) ==
  [row |-> row, global |-> global, bip39 |-> bip39, generic |-> generic,
   rowPathMismatch |-> rowPathMismatch, globalPathMismatch |-> globalPathMismatch]

\* the report as recoverMnemonic creates it
InitialReport ==
  [mnemonic |-> NullMnemonic,
   errors |-> RecoveryErrors(<<>>, FALSE, FALSE, NoMessage, <<>>, FALSE),
   success |-> FALSE,
   sharesWithInvalidChecksums |-> {}]

\* the value of a share that an interpolation reads, and its label
shareValue(share, kind, index) ==
  IF kind = "word" THEN share.wordShares[index]
  ELSE IF kind = "checksum" THEN share.checksumShares[index]
  ELSE share.globalIntegrityCheckShare

shareLabel(share, kind, index) ==
  IF kind = "word" THEN [name |-> "Word share", args |-> <<index, share.shareNumber>>]
  ELSE IF kind = "checksum"
  THEN [name |-> "Checksum share", args |-> <<index, share.shareNumber>>]
  ELSE [name |-> "Global Integrity Check (GIC) verification", args |-> <<share.shareNumber>>]

RECURSIVE pointsLoop(_, _, _, _, _)
\* shares.map((share) => ({x: mod(share.shareNumber), y: normalizeShareValue(...)}))
pointsLoop(shares, s, kind, index, points) ==
  IF s > Len(shares) THEN Ok(points)
  ELSE LET map(y) ==
             IF ~y.ok THEN y
             ELSE pointsLoop(shares, s + 1, kind, index,
                             Append(points, [x |-> mod(shares[s].shareNumber),
                                             y |-> y.value]))
       IN map(normalizeShareValue(shareValue(shares[s], kind, index),
                                  shareLabel(shares[s], kind, index)))

\* one pass of an interpolation loop: the value pushed, or the error thrown
interpolate(shares, kind, index) ==
  LET at(points) == IF ~points.ok THEN points ELSE lagrangeInterpolateAtZero(points.value)
  IN at(pointsLoop(shares, 1, kind, index, <<>>))

RECURSIVE interpolateLoop(_, _, _, _, _)
\* the loops that fill recoveredWords and recoveredChecks: [ok, error, value]
\* where value is the array as far as it was filled
interpolateLoop(shares, kind, index, count, recovered) ==
  LET push(one) ==
        IF ~one.ok THEN [ok |-> FALSE, value |-> recovered, error |-> one.error]
        ELSE interpolateLoop(shares, kind, index + 1, count, Append(recovered, one.value))
  IN Strict(recovered,
            IF index > count THEN Ok(recovered)
            ELSE push(interpolate(shares, kind, index)))

\* variant: no row is ever reported
mismatchedRows_none(recoveredChecks, recomputedChecks, row, found) == <<>>

\* the rows (0-based) whose recovered and recomputed checksums differ
RECURSIVE mismatchedRows(_, _, _, _)
mismatchedRows(recoveredChecks, recomputedChecks, row, found) ==
  Strict(found,
         IF row > Len(recoveredChecks) THEN found
         ELSE mismatchedRows(recoveredChecks, recomputedChecks, row + 1,
                             IF ~constantTimeEqual(recoveredChecks[row],
                                                   recomputedChecks[row])
                             THEN Append(found, row - 1) ELSE found))

\* how the try block of recoverMnemonic ends: exit is "return" (an early
\* return of the report), "end" (the block ran to its end) or "throw"
TryExit(exit, report, error, recoveredWords, recoveredChecks, recoveredGlobalIntegrityCheck) ==
  [exit |-> exit, report |-> report, error |-> error,
   recoveredWords |-> recoveredWords, recoveredChecks |-> recoveredChecks,
   recoveredGlobalIntegrityCheck |-> recoveredGlobalIntegrityCheck]

\* variant: the message is dropped
withGeneric_dropped(report, message) == report

\* variant: the message is stored and the report is marked successful
withGeneric_success(report, message) ==
  [report EXCEPT !.errors.generic = message, !.success = TRUE]

withGeneric(report, message) == [report EXCEPT !.errors.generic = message]

\* variant: step 4 without the check of the range 1..2048
validateRecovered_anyId(report, recoveredWords, recoveredChecks, recoveredGlobalIntegrityCheck, strictValidation) ==
  LET checksPass == Len(report.errors.row) = 0 /\ ~report.errors.global
      succeed(checked) ==
        TryExit("end",
                [checked EXCEPT !.success = /\ Len(checked.errors.row) = 0
                                            /\ ~checked.errors.global
                                            /\ ~checked.errors.bip39
                                            /\ checked.mnemonic # NullMnemonic],
                NoMessage, recoveredWords, recoveredChecks, recoveredGlobalIntegrityCheck)
  IN succeed([report EXCEPT
                !.mnemonic = IF checksPass
                             THEN [i \in 1..Len(recoveredWords) |->
                                     bip39IdToWord(recoveredWords[i]).value]
                             ELSE NullMnemonic])

\* variant: step 5 reports success whatever the checks found
validateRecovered_alwaysSuccess(report, recoveredWords, recoveredChecks, recoveredGlobalIntegrityCheck, strictValidation) ==
  TryExit("end", [report EXCEPT !.success = TRUE], NoMessage, recoveredWords,
          recoveredChecks, recoveredGlobalIntegrityCheck)

\* step 4 and 5 of the try block
validateRecovered(report, recoveredWords, recoveredChecks, recoveredGlobalIntegrityCheck, strictValidation) ==
  LET outside == {i \in 1..Len(recoveredWords) :
                    recoveredWords[i] < 1 \/ recoveredWords[i] > 2048}
      checksPass == Len(report.errors.row) = 0 /\ ~report.errors.global
      invalid(i) ==
        TryExit("return",
                withGeneric(report, Msg("Recovered word is outside the BIP39 range (1-2048). Cannot form a valid mnemonic.",
                                        <<i, recoveredWords[i]>>)),
                NoMessage, recoveredWords, recoveredChecks, recoveredGlobalIntegrityCheck)
      succeed(checked) ==
        TryExit("end",
                [checked EXCEPT !.success = /\ Len(checked.errors.row) = 0
                                            /\ ~checked.errors.global
                                            /\ ~checked.errors.bip39
                                            /\ Len(checked.errors.rowPathMismatch) = 0
                                            /\ ~checked.errors.globalPathMismatch
                                            /\ checked.mnemonic # NullMnemonic],
                NoMessage, recoveredWords, recoveredChecks, recoveredGlobalIntegrityCheck)
      validate(mnemonic) ==
        succeed([report EXCEPT
                   !.mnemonic = IF checksPass THEN mnemonic ELSE NullMnemonic,
                   !.errors.bip39 = checksPass /\ strictValidation
                                    /\ ~validateBip39Mnemonic(mnemonic)])
  IN IF checksPass /\ outside # {}
     THEN invalid(CHOOSE j \in outside : \A q \in outside : j <= q)
     ELSE validate([i \in 1..Len(recoveredWords) |-> bip39IdToWord(recoveredWords[i]).value])

\* step 2 and 3 of the try block
interpolateAndCheck(report, shares, wordCount, strictValidation) ==
  LET rowCount == wordCount \div WORDS_PER_ROW
      compare(recoveredWords, recoveredChecks, recoveredGlobalIntegrityCheck, rows,
              globalDiffers) ==
        validateRecovered([report EXCEPT !.errors.rowPathMismatch = rows,
                                         !.errors.globalPathMismatch = globalDiffers,
                                         !.errors.row = rows,
                                         !.errors.global = globalDiffers],
                          recoveredWords, recoveredChecks, recoveredGlobalIntegrityCheck,
                          strictValidation)
      recompute(recoveredWords, recoveredChecks, recoveredGlobalIntegrityCheck) ==
        compare(recoveredWords, recoveredChecks, recoveredGlobalIntegrityCheck,
                mismatchedRows(recoveredChecks, computeRowChecks(recoveredWords), 1, <<>>),
                ~constantTimeEqual(recoveredGlobalIntegrityCheck,
                                   computeGlobalChecksum(recoveredWords)))
      recover(words, checks, global) ==
        IF ~words.ok THEN TryExit("throw", report, words.error, words.value, <<>>, 0)
        ELSE IF ~checks.ok
        THEN TryExit("throw", report, checks.error, words.value, checks.value, 0)
        ELSE IF ~global.ok
        THEN TryExit("throw", report, global.error, words.value, checks.value, 0)
        ELSE recompute(words.value, checks.value, global.value)
  IN recover(interpolateLoop(shares, "word", 1, wordCount, <<>>),
             interpolateLoop(shares, "checksum", 1, rowCount, <<>>),
             interpolate(shares, "global", 0))

\* the try block.  The argument shares is [isArray, items].
recoverTry(report, shares, wordCount, strictValidation) ==
  LET thrown(error) == TryExit("throw", report, error, <<>>, <<>>, 0)
      validate(supported, valid, distinct) ==
        IF ~supported.ok THEN thrown(supported.error)
        ELSE IF wordCount % WORDS_PER_ROW # 0
        THEN TryExit("return",
                     withGeneric(report, Msg("Word count must be divisible by the words per row constant.", <<>>)),
                     NoMessage, <<>>, <<>>, 0)
        ELSE IF ~valid.ok THEN thrown(valid.error)
        ELSE IF ~distinct.ok THEN thrown(distinct.error)
        ELSE interpolateAndCheck(report, shares.items, wordCount, strictValidation)
  IN IF ~shares.isArray \/ Len(shares.items) < 2
     THEN TryExit("return",
                  withGeneric(report, Msg("At least two shares are required for recovery.", <<>>)),
                  NoMessage, <<>>, <<>>, 0)
     ELSE validate(ensureSupportedWordCount(wordCount),
                   validateSharesForRecovery(shares.items, wordCount),
                   ensureShareNumbersDistinct(shares.items))

\* variant: a handler that throws the error on
catchError_rethrow(report, error) == [raised |-> TRUE, report |-> report]

\* catch (error) { report.errors.generic = error.message }: the handler
\* catches every error and throws none
catchError(report, error) == [raised |-> FALSE, report |-> withGeneric(report, error)]

\* recoverMnemonic(shares, wordCount, {strictValidation}): the report
\* returned, whether an exception left the function, and the buffers of the
\* call as the finally block leaves them
recoverMnemonic(shares, wordCount, strictValidation) ==
  LET finally(tried, caught) ==
        [raised |-> caught.raised,
         report |-> caught.report,
         recoveredWords |-> secureWipeArray(tried.recoveredWords),
         recoveredChecks |-> secureWipeArray(tried.recoveredChecks),
         recoveredGlobalIntegrityCheck |->
           secureWipeNumber(tried.recoveredGlobalIntegrityCheck)]
      catch(tried) ==
        finally(tried,
                IF tried.exit = "throw" THEN catchError(tried.report, tried.error)
                ELSE [raised |-> FALSE, report |-> tried.report])
  IN catch(recoverTry(InitialReport, shares, wordCount, strictValidation))

\* ------------------------------------------------------------------------
\* Inputs
\* ------------------------------------------------------------------------

\* largest n and largest k of a split
MaxN == 3
MaxK == 3

\* A mnemonic argument also carries whether the BIP39 reference
\* implementation accepts its word list (bip39Valid), for the statements
\* about validation; the code never reads that field.
Mnemonic(words, bip39Valid) ==
  [isString |-> TRUE, words |-> words, untidy |-> FALSE, bip39Valid |-> bip39Valid]

\* 'spin result brand ahead poet carpet unusual chronic denial festival toy autumn'
SpinWords == <<1680, 1471, 217, 42, 1338, 279, 1907, 324, 468, 682, 1844, 126>>
\* 'abandon' x 11 + 'about'
AbandonWords == [i \in 1..12 |-> IF i = 12 THEN 4 ELSE 1]
\* 'zoo' x 11 + 'wrong'
ZooWords == [i \in 1..12 |-> IF i = 12 THEN 2038 ELSE 2048]
\* 'abandon' x 23 + 'art'
Abandon24Words == [i \in 1..24 |-> IF i = 24 THEN 103 ELSE 1]
\* the 15-word mnemonic of the entropy 0x80 x 20
Words15 == <<1029, 33, 258, 9, 65, 515, 17, 129, 1029, 33, 258, 9, 65, 515, 12>>

ValidMnemonics ==
  { Mnemonic(SpinWords, TRUE), Mnemonic(AbandonWords, TRUE), Mnemonic(ZooWords, TRUE),
    Mnemonic(Abandon24Words, TRUE),
    \* '  SPIN  result ... ': the same words after sanitizeMnemonic
    [Mnemonic(SpinWords, TRUE) EXCEPT !.untidy = TRUE] }

RejectedMnemonics ==
  { \* a valid mnemonic of an unsupported length
    Mnemonic(Words15, TRUE),
    \* wrong checksum word
    Mnemonic([SpinWords EXCEPT ![12] = 127], FALSE),
    Mnemonic([i \in 1..12 |-> 1], FALSE),
    \* a word that is not in the wordlist
    Mnemonic([SpinWords EXCEPT ![3] = 0], FALSE),
    \* 13 words, 11 words
    Mnemonic(Append(SpinWords, 1), FALSE),
    Mnemonic(SubSeq(SpinWords, 1, 11), FALSE),
    \* '' and '   '
    Mnemonic(<<>>, FALSE),
    [Mnemonic(<<>>, FALSE) EXCEPT !.untidy = TRUE],
    \* not a string
    [Mnemonic(<<>>, FALSE) EXCEPT !.isString = FALSE] }

\* the values of k and of n
Thresholds == (1..MaxK) \cup {Fraction, 0}
Totals == (2..MaxN) \cup {Fraction, FIELD_PRIME}

\* Random sources: the 32-bit words that crypto.getRandomValues delivers, in
\* order, repeated from the start when they run out.
RandomSource(words) == [words |-> words, pos |-> 1]

\* the words that make the coefficients of the published test vector
TestVectorCoefficients == <<1, 2052, 1126, 2012, 710, 571, 146, 1728, 2000, 130, 122, 383>>

TestVectorSource == RandomSource([i \in 1..12 |-> <<0, TestVectorCoefficients[i]>>])

\* every coefficient is 1026
ConstantSource == RandomSource(<< <<0, 1026>> >>)

\* words over the whole 32-bit range; the first and the fourth are rejected
\* by the sampling loop
WideSource ==
  RandomSource(<< <<65535, 65535>>, <<65535, 64000>>, <<32768, 7>>, <<65535, 64572>>,
                  <<12, 2053>>, <<0, 0>>, <<40000, 2052>> >>)

RandomSources == {TestVectorSource, ConstantSource, WideSource}

\* the mnemonics that are split, each with the random sources it is split with
SplitCases ==
  ({Mnemonic(SpinWords, TRUE)} \X RandomSources)
    \cup ({Mnemonic(AbandonWords, TRUE)} \X {ConstantSource, WideSource})
    \cup ((ValidMnemonics \ {Mnemonic(SpinWords, TRUE), Mnemonic(AbandonWords, TRUE)})
            \X {TestVectorSource})
    \cup ({Mnemonic(Abandon24Words, TRUE)} \X {ConstantSource})

\* ------------------------------------------------------------------------
\* What is done to the shares between split and recover
\* ------------------------------------------------------------------------

\* the share lists handed to recover: the shares of the split with the given
\* numbers, in increasing order
RECURSIVE selectShares(_, _, _)
selectShares(shares, i, selection) ==
  IF i > Len(shares) THEN <<>>
  ELSE IF i \in selection
  THEN <<shares[i]>> \o selectShares(shares, i + 1, selection)
  ELSE selectShares(shares, i + 1, selection)

Tamper(kind, share, index, value) ==
  [kind |-> kind, share |-> share, index |-> index, value |-> value]

NoTamper == Tamper("none", "first", "first", 0)

Tamperings ==
  { NoTamper,
    \* one word share, one checksum share or the global share of one share is
    \* replaced by another field element: value is added mod 2053
    Tamper("word", "first", "first", 1),
    Tamper("word", "last", "last", 1026),
    Tamper("word", "first", "last", 2052),
    Tamper("checksum", "first", "first", 1),
    Tamper("checksum", "last", "last", 1026),
    Tamper("global", "first", "first", 1),
    Tamper("global", "last", "first", 1026),
    \* a value that is no field element is written
    Tamper("wordValue", "first", "first", FIELD_PRIME),
    Tamper("wordValue", "last", "last", 0 - 1),
    Tamper("wordValue", "first", "last", Fraction),
    Tamper("checksumValue", "last", "first", FIELD_PRIME),
    Tamper("checksumValue", "first", "last", Fraction),
    Tamper("globalValue", "first", "first", FIELD_PRIME),
    Tamper("globalValue", "last", "first", 0 - 1),
    Tamper("globalValue", "first", "first", Fraction),
    Tamper("globalValue", "last", "first", Undefined),
    \* arrays of the wrong length
    Tamper("wordLength", "first", "first", 0 - 1),
    Tamper("wordLength", "last", "first", 1),
    Tamper("checksumLength", "last", "first", 0 - 1),
    Tamper("checksumLength", "first", "first", 1),
    \* share numbers
    Tamper("shareNumber", "first", "first", 0),
    Tamper("shareNumber", "last", "first", FIELD_PRIME),
    Tamper("shareNumber", "first", "first", Fraction),
    Tamper("shareNumber", "last", "first", 0 - 3),
    \* the last share gets the number of the first
    Tamper("duplicate", "last", "first", 0),
    \* ... and the first share loses its last word value as well
    Tamper("duplicateShort", "first", "first", 0 - 1),
    \* ... and the first share has no global share as well
    Tamper("duplicateNoGlobal", "first", "first", Undefined),
    \* an entry of the list is null; the list is no array
    Tamper("nullShare", "last", "first", 0),
    Tamper("notArray", "first", "first", 0) }

position(which, length) == IF which = "first" THEN 1 ELSE length

resize(arr, by) == IF by < 0 THEN SubSeq(arr, 1, Len(arr) + by) ELSE Append(arr, 0)

tamperShare(share, first, tamper) ==
  LET i == position(tamper.index, Len(share.wordShares))
      r == position(tamper.index, Len(share.checksumShares))
      kind == tamper.kind
  IN CASE kind = "word" ->
            [share EXCEPT !.wordShares[i] = (@ + tamper.value) % FIELD_PRIME]
       [] kind = "checksum" ->
            [share EXCEPT !.checksumShares[r] = (@ + tamper.value) % FIELD_PRIME]
       [] kind = "global" ->
            [share EXCEPT !.globalIntegrityCheckShare = (@ + tamper.value) % FIELD_PRIME]
       [] kind = "wordValue" -> [share EXCEPT !.wordShares[i] = tamper.value]
       [] kind = "checksumValue" -> [share EXCEPT !.checksumShares[r] = tamper.value]
       [] kind = "globalValue" -> [share EXCEPT !.globalIntegrityCheckShare = tamper.value]
       [] kind = "wordLength" -> [share EXCEPT !.wordShares = resize(@, tamper.value)]
       [] kind = "checksumLength" -> [share EXCEPT !.checksumShares = resize(@, tamper.value)]
       [] kind = "shareNumber" -> [share EXCEPT !.shareNumber = tamper.value]
       [] kind = "duplicate" -> [share EXCEPT !.shareNumber = first.shareNumber]
       [] kind = "duplicateShort" -> [share EXCEPT !.wordShares = resize(@, tamper.value)]
       [] kind = "duplicateNoGlobal" ->
            [share EXCEPT !.globalIntegrityCheckShare = tamper.value]
       [] kind = "nullShare" -> [share EXCEPT !.isNull = TRUE]
       [] OTHER -> share

\* the argument `shares` of recover after the tampering
tamperShares(items, tamper) ==
  LET at == position(tamper.share, Len(items))
      one == [s \in 1..Len(items) |->
                IF s = at THEN tamperShare(items[s], items[1], tamper) ELSE items[s]]
      two == IF tamper.kind \in {"duplicateShort", "duplicateNoGlobal"}
             THEN [one EXCEPT ![Len(items)].shareNumber = items[1].shareNumber]
             ELSE one
  IN [isArray |-> tamper.kind # "notArray", items |-> two]

\* ------------------------------------------------------------------------
\* The state machine
\* ------------------------------------------------------------------------

VARIABLES
  pc,          \* "idle", "split" (splitMnemonic has been called), "recovered"
  splitIn,     \* the arguments of splitMnemonic and the random source
  splitOut,    \* what splitMnemonic left behind
  chosen,      \* which shares were handed on, and what was done to them
  recoverIn,   \* the arguments of recoverMnemonic
  recoverOut,  \* what recoverMnemonic left behind
  probe,       \* what an observer of fewer than k shares holds, see Probes
  lagrange,    \* the arguments and results of calls of core/lagrange.ts
  call         \* the arguments and the result of a call of one utility function

vars == <<pc, splitIn, splitOut, chosen, recoverIn, recoverOut, probe, lagrange, call>>

None == [none |-> TRUE]

Init ==
  /\ pc = "idle"
  /\ splitIn = None
  /\ splitOut = None
  /\ chosen = None
  /\ recoverIn = None
  /\ recoverOut = None
  /\ probe = None
  /\ lagrange = None
  /\ call = None

\* a call of splitMnemonic(mnemonic, k, n)
SplitMnemonic ==
  /\ pc = "idle"
  /\ \E mnemonic \in ValidMnemonics \cup RejectedMnemonics, k \in Thresholds, n \in Totals,
        rng \in RandomSources :
       /\ \/ <<mnemonic, rng>> \in SplitCases /\ k \in 2..MaxK /\ n \in 2..MaxN /\ k <= n
          \* rejected arguments are tried with one random source only
          \/ /\ rng = ConstantSource
             /\ \/ mnemonic \in RejectedMnemonics /\ k = 2 /\ n = MaxN
                \/ mnemonic = Mnemonic(SpinWords, TRUE)
       /\ splitIn' = [mnemonic |-> mnemonic, k |-> k, n |-> n, rng |-> rng]
       /\ splitOut' = splitMnemonic(mnemonic, k, n, rng)
  /\ pc' = "split"
  /\ UNCHANGED <<chosen, recoverIn, recoverOut, probe, lagrange, call>>

\* a call of recoverMnemonic(shares, wordCount, options) on shares of the split
RecoverMnemonic ==
  /\ pc = "split"
  /\ splitOut.ok
  /\ \E selection \in SUBSET (1..splitIn.n), tamper \in Tamperings,
        wordCount \in {12, 15, 24}, strictValidation \in BOOLEAN :
       LET items == selectShares(splitOut.shares, 1, selection)
           shares == tamperShares(items, tamper)
       IN /\ tamper.kind # "none" => Cardinality(selection) >= 2
          /\ tamper.kind # "none" =>
               wordCount = Len(splitIn.mnemonic.words) /\ strictValidation
          /\ wordCount # Len(splitIn.mnemonic.words) => strictValidation
          /\ chosen' = [selection |-> selection, tamper |-> tamper]
          /\ recoverIn' = [shares |-> shares, wordCount |-> wordCount,
                           strictValidation |-> strictValidation]
          /\ recoverOut' = recoverMnemonic(shares, wordCount, strictValidation)
  /\ pc' = "recovered"
  /\ UNCHANGED <<splitIn, splitOut, probe, lagrange, call>>

Next == SplitMnemonic \/ RecoverMnemonic

Spec == Init /\ [][Next]_vars

\* ------------------------------------------------------------------------
\* What fewer than k shares leave open
\* ------------------------------------------------------------------------

\* An observer holds the values of one word in k-1 shares (numbers are the
\* share numbers, observed the values) and considers a secret.  The probes
\* are those of a 2-of-n split: one share, and one random coefficient, whose
\* 2053 values are all tried.
Probe(numbers, observed, secret) ==
  [numbers |-> numbers, observed |-> observed, secret |-> secret, count |-> 0 - 1]

ObservedValues == {0, 1, 652, 1026, FIELD_PRIME - 1}
CandidateSecrets == {0, 1, 1679, BIP39_WORDS - 1, FIELD_PRIME - 1}

Probes ==
  { Probe(<<x>>, <<y>>, secret) :
      x \in 1..MaxN, y \in ObservedValues, secret \in CandidateSecrets }

\* the values that the draws of randomPolynomial(secret, degree) can have
CoefficientChoices(degree) == [1..degree -> 0..(FIELD_PRIME - 1)]

\* the number of choices of the random coefficients with which the shares
\* of the secret have the observed values
consistentChoices(p) ==
  Cardinality({ drawn \in CoefficientChoices(Len(p.numbers)) :
                  \A j \in 1..Len(p.numbers) :
                    evaluatePolynomial(<<mod(p.secret)>> \o drawn, p.numbers[j])
                      = p.observed[j] })

SecrecyInit ==
  /\ splitIn = None
  /\ splitOut = None
  /\ chosen = None
  /\ recoverIn = None
  /\ recoverOut = None
  /\ lagrange = None
  /\ call = None
  /\ \/ pc = "idle" /\ probe = None
     \/ pc = "observe" /\ probe \in Probes

CountChoices ==
  /\ pc = "observe"
  /\ probe' = [probe EXCEPT !.count = consistentChoices(probe)]
  /\ pc' = "counted"
  /\ UNCHANGED <<splitIn, splitOut, chosen, recoverIn, recoverOut, lagrange, call>>

SecrecyNext == SplitMnemonic \/ CountChoices

SecrecySpec == SecrecyInit /\ [][SecrecyNext]_vars

\* ------------------------------------------------------------------------
\* Properties
\* ------------------------------------------------------------------------

Recovered == pc = "recovered"

\* the word count of the mnemonic that was split
SplitWordCount == Len(splitIn.mnemonic.words)

\* recover got shares of the split as split returned them, and its word count
Untampered == chosen.tamper = NoTamper /\ recoverIn.wordCount = SplitWordCount

Report == recoverOut.report

AnyError(report) ==
  \/ report.errors.generic # NoMessage
  \/ Len(report.errors.row) > 0
  \/ report.errors.global
  \/ report.errors.bip39
  \/ Len(report.errors.rowPathMismatch) > 0
  \/ report.errors.globalPathMismatch

\* C1 (round trip): recover on exactly k untampered shares of split(m, k, n)
\* returns mnemonic == m and success == true.
RoundTrip ==
  (Recovered /\ Untampered /\ Cardinality(chosen.selection) = splitIn.k)
    => (Report.mnemonic = splitIn.mnemonic.words /\ Report.success)

\* C2 (overdetermined consistency): recover on more than k untampered shares
\* of split(m, k, n), up to all n, returns mnemonic == m and success == true.
OverdeterminedConsistency ==
  (Recovered /\ Untampered /\ Cardinality(chosen.selection) > splitIn.k)
    => (Report.mnemonic = splitIn.mnemonic.words /\ Report.success)

\* the sums that a share's checksum shares and global share are
RowSum(wordShares, row) ==
  (wordShares[3 * row - 2] + wordShares[3 * row - 1] + wordShares[3 * row]) % FIELD_PRIME

ChecksumsFollowFromWordShares(share) ==
  /\ \A row \in 1..Len(share.checksumShares) :
       share.checksumShares[row] = RowSum(share.wordShares, row)
  /\ share.globalIntegrityCheckShare = reduceModAdd(share.wordShares, 1, 0)

\* C3 (threshold secrecy): for k-1 distinct share numbers, every tuple of
\* k-1 observed values of a word and every candidate secret, exactly one
\* choice of the random coefficients produces the observed values; and the
\* checksum shares and the global share of a share are sums of its own word
\* shares.
ThresholdSecrecy ==
  /\ pc = "counted" => probe.count = 1
  /\ (pc = "split" /\ splitOut.ok) =>
       \A i \in 1..Len(splitOut.shares) : ChecksumsFollowFromWordShares(splitOut.shares[i])

\* C3 happens: the choices were counted for share 1 of the word 'spin' split
\* with the coefficient 1026 and for a secret that is not the one split
ThresholdSecrecyReached ==
  /\ pc = "counted"
  /\ probe.numbers = <<1>> /\ probe.observed = <<652>> /\ probe.secret = 0
  /\ probe.count = 1

\* C4 as stated (threshold boundary): recover on fewer than k untampered
\* shares returns success == false.
ThresholdBoundary ==
  (Recovered /\ Untampered /\ Cardinality(chosen.selection) < splitIn.k)
    => ~Report.success

\* the value that the given shares interpolate to for word i
InterpolatedWord(items, i) ==
  lagrangeInterpolateAtZero([s \in 1..Len(items) |->
    [x |-> items[s].shareNumber, y |-> items[s].wordShares[i]]]).value

InterpolatedWords(items) ==
  [i \in 1..Len(items[1].wordShares) |-> InterpolatedWord(items, i)]

\* C4 amended: recover on fewer than k untampered shares gives the 'At least
\* two shares' error and success == false for fewer than two shares; for 2 to
\* k-1 shares success is true exactly when every value the shares interpolate
\* to is a BIP39 ID in 1..2048 and (under strictValidation) the words of
\* these IDs pass the BIP39 checksum, and a failure sets an error field.
ThresholdBoundaryAmended ==
  (Recovered /\ Untampered /\ Cardinality(chosen.selection) < splitIn.k) =>
    IF Cardinality(chosen.selection) < 2
    THEN /\ Report.errors.generic.text = "At least two shares are required for recovery."
         /\ ~Report.success
    ELSE LET ids == InterpolatedWords(recoverIn.shares.items)
         IN /\ Report.success <=>
                 /\ \A i \in 1..Len(ids) : ids[i] >= 1 /\ ids[i] <= 2048
                 /\ recoverIn.strictValidation => validateBip39Mnemonic(ids)
            /\ ~Report.success => AnyError(Report)

\* C4 happens: two shares of a 3-of-n split were recovered from, with success
ThresholdBoundaryReached ==
  /\ Recovered /\ Untampered
  /\ splitIn.k = 3 /\ Cardinality(chosen.selection) = 2
  /\ Report.success
  /\ Report.mnemonic = splitIn.mnemonic.words

\* C5 (recover never raises): for every share list and word count recover
\* returns its report, no exception leaves it, and success is false exactly
\* when an error field is set; without a mnemonic an error field is set.
RecoverNeverRaises ==
  Recovered =>
    /\ ~recoverOut.raised
    /\ ~Report.success <=> AnyError(Report)
    /\ Report.mnemonic = NullMnemonic => AnyError(Report)

\* C5 happens: an error thrown inside recover (a null entry in the list) was
\* caught and reported
RecoverNeverRaisesReached ==
  /\ Recovered /\ chosen.tamper.kind = "nullShare"
  /\ ~recoverOut.raised
  /\ Report.errors.generic.text = "TypeError: Cannot read properties of null"

IsFieldElement(value) == IsInteger(value) /\ value >= 0 /\ value <= 2052

ValidShareNumber(share) ==
  /\ ~share.isNull
  /\ IsInteger(share.shareNumber) /\ share.shareNumber >= 1 /\ share.shareNumber <= 2052

DuplicateShareNumbers(items) ==
  \E a, b \in 1..Len(items) :
    a < b /\ ~items[a].isNull /\ ~items[b].isNull
          /\ items[a].shareNumber = items[b].shareNumber

\* a precondition that recover checks before it compares share numbers fails
CheckedBeforeDuplicates(in) ==
  \/ ~in.shares.isArray
  \/ Len(in.shares.items) < 2
  \/ in.wordCount \notin {12, 24}
  \/ \E s \in 1..Len(in.shares.items) :
       LET share == in.shares.items[s]
       IN \/ ~ValidShareNumber(share)
          \/ Len(share.wordShares) # in.wordCount
          \/ Len(share.checksumShares) # in.wordCount \div 3
          \/ ~IsInteger(share.globalIntegrityCheckShare)

\* the share set violates a precondition of recover
StructuralViolation(in) ==
  \/ CheckedBeforeDuplicates(in)
  \/ DuplicateShareNumbers(in.shares.items)
  \/ \E s \in 1..Len(in.shares.items) :
       LET share == in.shares.items[s]
       IN \/ \E i \in 1..Len(share.wordShares) : ~IsFieldElement(share.wordShares[i])
          \/ \E r \in 1..Len(share.checksumShares) : ~IsFieldElement(share.checksumShares[r])
          \/ ~IsFieldElement(share.globalIntegrityCheckShare)

Aborted ==
  /\ Report.errors.generic # NoMessage
  /\ Report.mnemonic = NullMnemonic
  /\ ~Report.success

\* C6 as stated (structural validation): a share set that violates a
\* precondition gives errors.generic != null, mnemonic == null and success ==
\* false, and duplicate share numbers give the 'Duplicate share numbers'
\* message.
StructuralValidation ==
  (Recovered /\ StructuralViolation(recoverIn)) =>
    /\ Aborted
    /\ DuplicateShareNumbers(recoverIn.shares.items) =>
         Report.errors.generic.text = "Duplicate share numbers detected."

\* C6 amended: a share set that violates a precondition gives errors.generic
\* != null, mnemonic == null and success == false; duplicate share numbers
\* give the 'Duplicate share numbers' message when the list has two shares or
\* more, the word count is 12 or 24 and every share has a valid share number,
\* arrays of the expected lengths and an integer global share.
StructuralValidationAmended ==
  (Recovered /\ StructuralViolation(recoverIn)) =>
    /\ Aborted
    /\ (DuplicateShareNumbers(recoverIn.shares.items) /\ ~CheckedBeforeDuplicates(recoverIn))
         => Report.errors.generic.text = "Duplicate share numbers detected."

\* C6 happens: two shares with the same number were handed to recover
StructuralValidationReached ==
  /\ Recovered /\ chosen.tamper.kind = "duplicate"
  /\ DuplicateShareNumbers(recoverIn.shares.items)
  /\ Report.errors.generic.text = "Duplicate share numbers detected."

\* C7 (word-share corruption): with at least k shares of one split, one word
\* share of one share replaced by another field element, recover returns
\* success == false with errors.row non-empty, errors.global or errors.bip39.
WordCorruptionDetected ==
  (Recovered /\ chosen.tamper.kind = "word"
     /\ Cardinality(chosen.selection) >= splitIn.k) =>
    /\ ~Report.success
    /\ Len(Report.errors.row) > 0 \/ Report.errors.global \/ Report.errors.bip39

\* C7 happens: a word share of the last row was replaced and the row reported
WordCorruptionReached ==
  /\ Recovered /\ chosen.tamper.kind = "word" /\ chosen.tamper.index = "last"
  /\ Cardinality(chosen.selection) >= splitIn.k
  /\ recoverIn.shares.items # selectShares(splitOut.shares, 1, chosen.selection)
  /\ Report.errors.row = <<SplitWordCount \div 3 - 1>>

\* C8 (checksum-share corruption): with a consistent share set, one checksum
\* share replaced by a different field element gives success == false with
\* rowPathMismatch, row or bip39 flagged; the global share replaced by a
\* different field element gives success == false with globalPathMismatch,
\* global or bip39 flagged.
ChecksumCorruptionDetected ==
  /\ (Recovered /\ chosen.tamper.kind = "checksum") =>
       /\ ~Report.success
       /\ \/ Len(Report.errors.rowPathMismatch) > 0
          \/ Len(Report.errors.row) > 0
          \/ Report.errors.bip39
  /\ (Recovered /\ chosen.tamper.kind = "global") =>
       /\ ~Report.success
       /\ Report.errors.globalPathMismatch \/ Report.errors.global \/ Report.errors.bip39

\* C8 happens: a replaced global share was reported while no row was
ChecksumCorruptionReached ==
  /\ Recovered /\ chosen.tamper.kind = "global"
  /\ Report.errors.globalPathMismatch /\ Report.errors.global
  /\ Report.errors.row = <<>>

\* the arguments of split that the specification lists as rejected
RejectedArguments(in) ==
  \/ ~IsInteger(in.k) \/ ~IsInteger(in.n)
  \/ in.k < 2
  \/ in.k > in.n
  \/ in.n >= 2053
  \/ ~in.mnemonic.bip39Valid
  \/ Len(in.mnemonic.words) \notin {12, 24}

\* C9 (split input validation): split raises an error and returns no shares
\* when k or n is no integer, k < 2, k > n, n >= 2053, the mnemonic fails BIP39
\* validation or has a word count other than 12 and 24; for all other
\* arguments it raises no error.
SplitInputValidation ==
  pc # "idle" /\ pc # "observe" /\ pc # "counted" =>
    /\ RejectedArguments(splitIn) <=> ~splitOut.ok
    /\ ~splitOut.ok => splitOut.shares = <<>> /\ splitOut.error # NoMessage

\* C9 happens: a valid 15-word mnemonic was rejected for its length
SplitInputValidationReached ==
  /\ pc = "split" /\ splitIn.mnemonic.words = Words15 /\ splitIn.mnemonic.bip39Valid
  /\ ~splitOut.ok
  /\ splitOut.error.text = "This tool currently supports only 12- or 24-word mnemonics."

\* C10 (split output shape): on valid input split returns n shares, the i-th
\* with shareNumber i, W word shares and W/3 checksum shares, every value an
\* integer in 0..2052.
SplitOutputShape ==
  (pc = "split" /\ splitOut.ok) =>
    /\ Len(splitOut.shares) = splitIn.n
    /\ \A i \in 1..Len(splitOut.shares) :
         LET share == splitOut.shares[i]
         IN /\ share.shareNumber = i
            /\ Len(share.wordShares) = SplitWordCount
            /\ Len(share.checksumShares) = SplitWordCount \div 3
            /\ \A j \in 1..Len(share.wordShares) : IsFieldElement(share.wordShares[j])
            /\ \A r \in 1..Len(share.checksumShares) : IsFieldElement(share.checksumShares[r])
            /\ IsFieldElement(share.globalIntegrityCheckShare)

\* C10 happens: a 24-word mnemonic was split into three shares
SplitOutputShapeReached ==
  /\ pc = "split" /\ splitOut.ok
  /\ splitIn.n = 3 /\ SplitWordCount = 24
  /\ Len(splitOut.shares) = 3

\* the word polynomials of the split, built again from its arguments
SplitWordPolynomials ==
  buildWordPolynomials([i \in 1..SplitWordCount |->
                          wordlistIndexOf(splitIn.mnemonic.words[i])],
                       1, splitIn.k - 1, splitIn.rng, <<>>).value.value

\* C11 (row checksum shares): every share that split returns has, for every
\* row, a checksum share equal to the sum mod 2053 of the three word shares of
\* the row.
RowChecksumShares ==
  (pc = "split" /\ splitOut.ok) =>
    \A i \in 1..Len(splitOut.shares) :
      LET share == splitOut.shares[i]
      IN \A row \in 1..(SplitWordCount \div 3) :
           share.checksumShares[row] = RowSum(share.wordShares, row)

\* C11 happens: the first share of the published split of 'spin result ...'
\* has the row sums 388, 846, 414 of its first three rows (the last word
\* share is 126 - 1 + 383)
RowChecksumSharesReached ==
  /\ pc = "split" /\ splitOut.ok
  /\ splitIn.rng = TestVectorSource /\ splitIn.mnemonic = Mnemonic(SpinWords, TRUE)
  /\ splitIn.k = 2
  /\ SubSeq(splitOut.shares[1].checksumShares, 1, 3) = <<385, 843, 411>>

\* C12 (global share, plain sum): every share that split returns has a global
\* share equal to the sum mod 2053 of all its word shares, which is the value
\* at the share number of the sum of all word polynomials.
GlobalSharePlainSum ==
  (pc = "split" /\ splitOut.ok) =>
    \A i \in 1..Len(splitOut.shares) :
      LET share == splitOut.shares[i]
      IN /\ share.globalIntegrityCheckShare = reduceModAdd(share.wordShares, 1, 0)
         /\ share.globalIntegrityCheckShare =
              evaluatePolynomial(computeGlobalCheckPolynomial(SplitWordPolynomials),
                                 share.shareNumber)

\* C12 happens: a 3-of-3 split of a 24-word mnemonic returned its shares
GlobalSharePlainSumReached ==
  /\ pc = "split" /\ splitOut.ok
  /\ splitIn.k = 3 /\ SplitWordCount = 24
  /\ splitOut.shares[3].globalIntegrityCheckShare
       = reduceModAdd(splitOut.shares[3].wordShares, 1, 0)

\* C13 as stated (global share, share-number convention): every share that
\* split returns has a global share equal to the sum of its word shares plus
\* its share number, mod 2053.
GlobalShareWithNumber ==
  (pc = "split" /\ splitOut.ok) =>
    \A i \in 1..Len(splitOut.shares) :
      LET share == splitOut.shares[i]
      IN share.globalIntegrityCheckShare
           = (computeGlobalChecksum(share.wordShares) + share.shareNumber) % 2053

\* ------------------------------------------------------------------------
\* Shares with the share number in the global share (the published vectors)
\* ------------------------------------------------------------------------

\* A share as the test of the published vectors constructs it: the word
\* polynomials have the 1-based BIP39 IDs as constant terms, the checksum
\* shares are the values of the row polynomials, and the global share is the
\* value of the global polynomial plus the share number.
testVectorShare(x, wordPolynomials) ==
  [shareNumber |-> x,
   wordShares |-> [i \in 1..Len(wordPolynomials) |->
                     evaluatePolynomial(wordPolynomials[i], x)],
   checksumShares |-> [r \in 1..(Len(wordPolynomials) \div WORDS_PER_ROW) |->
                         evaluatePolynomial(computeRowCheckPolynomials(wordPolynomials)[r], x)],
   globalIntegrityCheckShare |->
     modAdd(evaluatePolynomial(computeGlobalCheckPolynomial(wordPolynomials), x), x),
   isNull |-> FALSE]

testVectorShares(wordIndices, k, n, rng) ==
  LET generate(wordPolynomials) == [x \in 1..n |-> testVectorShare(x, wordPolynomials)]
  IN generate(buildWordPolynomials(wordIndices, 1, k - 1, rng, <<>>).value.value)

\* expectedShares[1] of the published vector
ExpectedShare1 ==
  [shareNumber |-> 1,
   wordShares |-> <<1681, 1470, 1343, 1, 2048, 850, 0, 2052, 415, 812, 1966, 509>>,
   checksumShares |-> <<388, 846, 414, 1234>>,
   globalIntegrityCheckShare |-> 830,
   isNull |-> FALSE]

\* the order in which the chosen shares are handed to recover
arrange(items, order) ==
  IF order = "decreasing" THEN [s \in 1..Len(items) |-> items[Len(items) + 1 - s]]
  ELSE items

\* the shares of a mnemonic are constructed with the share-number convention
BuildShares ==
  /\ pc = "idle"
  /\ \E mnemonic \in ValidMnemonics, k \in 2..MaxK, n \in 2..MaxN, rng \in RandomSources :
       /\ k <= n
       /\ ~mnemonic.untidy
       /\ splitIn' = [mnemonic |-> mnemonic, k |-> k, n |-> n, rng |-> rng]
       /\ splitOut' = SplitExit(Ok(testVectorShares(mnemonic.words, k, n, rng)), rng,
                                <<>>, <<>>, <<>>, <<>>)
  /\ pc' = "built"
  /\ UNCHANGED <<chosen, recoverIn, recoverOut, probe, lagrange, call>>

\* a call of recoverMnemonic on some of the constructed shares
RecoverShares ==
  /\ pc = "built"
  /\ \E selection \in SUBSET (1..splitIn.n), order \in {"increasing", "decreasing"},
        strictValidation \in BOOLEAN :
       LET items == arrange(selectShares(splitOut.shares, 1, selection), order)
           shares == [isArray |-> TRUE, items |-> items]
       IN /\ selection # {}
          /\ chosen' = [selection |-> selection, tamper |-> NoTamper]
          /\ recoverIn' = [shares |-> shares, wordCount |-> SplitWordCount,
                           strictValidation |-> strictValidation]
          /\ recoverOut' = recoverMnemonic(shares, SplitWordCount, strictValidation)
  /\ pc' = "recovered"
  /\ UNCHANGED <<splitIn, splitOut, probe, lagrange, call>>

VectorNext == BuildShares \/ RecoverShares

VectorSpec == Init /\ [][VectorNext]_vars

\* C14 (recovery under the share-number convention): shares whose checksum
\* shares are the row sums and whose global share is the sum of the word
\* shares plus the share number are recovered from any k or more distinct
\* shares with errors.global false, errors.row empty, success true and the
\* original mnemonic.
ShareNumberConventionRecovers ==
  /\ pc = "built" =>
       \A i \in 1..Len(splitOut.shares) :
         LET share == splitOut.shares[i]
         IN /\ \A row \in 1..Len(share.checksumShares) :
                 share.checksumShares[row] = RowSum(share.wordShares, row)
            /\ share.globalIntegrityCheckShare
                 = (reduceModAdd(share.wordShares, 1, 0) + share.shareNumber) % 2053
  /\ (Recovered /\ Cardinality(chosen.selection) >= splitIn.k) =>
       /\ ~Report.errors.global
       /\ Report.errors.row = <<>>
       /\ Report.success
       /\ Report.mnemonic = splitIn.mnemonic.words

\* C14 happens: shares 3 and 1, in this order, of the published 2-of-3 vector
\* were recovered from
ShareNumberConventionReached ==
  /\ Recovered
  /\ splitIn.k = 2 /\ splitIn.n = 3
  /\ splitOut.shares[1] = ExpectedShare1
  /\ Len(recoverIn.shares.items) = 2
  /\ recoverIn.shares.items[2] = ExpectedShare1
  /\ recoverIn.shares.items[1].shareNumber = 3
  /\ recoverIn.shares.items[1].globalIntegrityCheckShare = 211
  /\ Report.success /\ Report.mnemonic = SpinWords

\* ------------------------------------------------------------------------
\* A random source that fails during a split
\* ------------------------------------------------------------------------

\* sources whose getRandomValues throws at the first, the second and the
\* fourth draw
FailingSources ==
  { RandomSource(<< Failing >>),
    RandomSource(<< <<0, 1026>>, Failing >>),
    RandomSource(<< <<0, 7>>, <<0, 8>>, <<0, 9>>, Failing >>) }

\* a call of splitMnemonic(mnemonic, k, n) during which the random source fails
SplitMnemonicRngFails ==
  /\ pc = "idle"
  /\ \E mnemonic \in ValidMnemonics, k \in 2..MaxK, n \in 2..MaxN, rng \in FailingSources :
       /\ k <= n
       /\ splitIn' = [mnemonic |-> mnemonic, k |-> k, n |-> n, rng |-> rng]
       /\ splitOut' = splitMnemonic(mnemonic, k, n, rng)
  /\ pc' = "split"
  /\ UNCHANGED <<chosen, recoverIn, recoverOut, probe, lagrange, call>>

FaultNext == SplitMnemonic \/ SplitMnemonicRngFails \/ RecoverMnemonic

FaultSpec == Init /\ [][FaultNext]_vars

AllZero(arr) == \A i \in 1..Len(arr) : arr[i] = 0

\* C15 (zeroisation in split): when splitMnemonic has returned or thrown, the
\* word-ID buffer, every word polynomial and every Path-B polynomial that was
\* allocated holds only zeros.
SplitZeroisation ==
  pc = "split" =>
    /\ AllZero(splitOut.wordIndices)
    /\ \A i \in 1..Len(splitOut.wordPolynomials) : AllZero(splitOut.wordPolynomials[i])
    /\ \A r \in 1..Len(splitOut.rowCheckPolynomials) :
         AllZero(splitOut.rowCheckPolynomials[r])
    /\ AllZero(splitOut.globalCheckPolynomial)

\* C16 (zeroisation in recover): when recoverMnemonic has returned, on every
\* exit path, the buffers of the recovered word IDs and of the recovered row
\* checksums hold only zeros and the recovered global value is 0.
RecoverZeroisation ==
  Recovered =>
    /\ AllZero(recoverOut.recoveredWords)
    /\ AllZero(recoverOut.recoveredChecks)
    /\ recoverOut.recoveredGlobalIntegrityCheck = 0

\* C16 happens: a recovery whose buffers were filled (12 IDs, 4 row
\* checksums) ended with a checksum failure
RecoverZeroisationReached ==
  /\ Recovered
  /\ Len(recoverOut.recoveredWords) = 12
  /\ Len(recoverOut.recoveredChecks) = 4
  /\ Report.errors.row # <<>>
  /\ ~Report.success

\* ------------------------------------------------------------------------
\* Two recoveries that differ in the recovered IDs only
\* ------------------------------------------------------------------------

\* the share of the same number for the secret whose IDs are all higher by c:
\* every word share is raised by c, every checksum share by 3c, the global
\* share by c times the number of words
shiftShare(share, c) ==
  [share EXCEPT
     !.wordShares = [i \in 1..Len(share.wordShares) |-> modAdd(share.wordShares[i], c)],
     !.checksumShares = [r \in 1..Len(share.checksumShares) |->
                           modAdd(share.checksumShares[r], modMul(WORDS_PER_ROW, c))],
     !.globalIntegrityCheckShare =
        modAdd(share.globalIntegrityCheckShare, modMul(Len(share.wordShares), c))]

shiftShares(shares, c) ==
  [shares EXCEPT !.items = [s \in 1..Len(shares.items) |-> shiftShare(shares.items[s], c)]]

\* the amounts by which the IDs of the second run are higher
IdShifts == {2049, 2052}

\* the IDs that step 2 of recoverMnemonic interpolates from the shares
interpolatedWords(shares, wordCount) ==
  interpolateLoop(shares.items, "word", 1, wordCount, <<>>).value

\* the positions whose ID is outside 1..2048
outsidePositions(recoveredWords) ==
  {i \in 1..Len(recoveredWords) : recoveredWords[i] < 1 \/ recoveredWords[i] > 2048}

\* C17 (no secret in messages): two calls of recoverMnemonic with the same
\* share numbers, word count and options, whose recovered IDs differ in value
\* but are out of range at the same positions, report the same
\* errors.generic: the message does not contain a recovered ID.
NoSecretInMessages ==
  (Recovered /\ chosen.tamper = NoTamper /\ Cardinality(chosen.selection) >= 2) =>
    \A c \in IdShifts :
      LET sameMessage(other) ==
            (outsidePositions(interpolatedWords(other, recoverIn.wordCount))
               = outsidePositions(interpolatedWords(recoverIn.shares, recoverIn.wordCount)))
              => recoverMnemonic(other, recoverIn.wordCount,
                                 recoverIn.strictValidation).report.errors.generic
                   = Report.errors.generic
      IN sameMessage(shiftShares(recoverIn.shares, c))

\* C18 (success flag): a report without a generic message reached the final
\* step, and its success flag is the conjunction of: no row error, no global
\* error, no row path mismatch, no global path mismatch, no bip39 error, and
\* a mnemonic that is set; a report with a generic message (an early return
\* or a caught exception) has success false.
SuccessFlag ==
  Recovered =>
    /\ Report.errors.generic = NoMessage =>
         (Report.success <=> /\ Report.errors.row = <<>>
                             /\ ~Report.errors.global
                             /\ Report.errors.rowPathMismatch = <<>>
                             /\ ~Report.errors.globalPathMismatch
                             /\ ~Report.errors.bip39
                             /\ Report.mnemonic # NullMnemonic)
    /\ Report.errors.generic # NoMessage => ~Report.success

\* C18 happens: the final step was reached with a mnemonic set and every
\* check passed but the BIP39 checksum, and success is false
SuccessFlagReached ==
  /\ Recovered
  /\ Report.errors.generic = NoMessage
  /\ Report.mnemonic # NullMnemonic
  /\ Report.errors.bip39
  /\ Report.errors.row = <<>> /\ ~Report.errors.global
  /\ ~Report.success

\* ------------------------------------------------------------------------
\* Calls of lagrangeInterpolateAtZero and computeLagrangeMultipliers
\* ------------------------------------------------------------------------

\* the largest number of points, and of coefficients of a polynomial
MaxPoints == 3

CoefficientSample == {0, 1, 1026, 2052}
NumberSample == {0, 1, 2, 1027, 2052}
ValueSample == {0, 1, 2052}

SeqsUpTo(sample, maxLen) == UNION {[1..len -> sample] : len \in 0..maxLen}

Distinct(numbers) ==
  \A i \in 1..Len(numbers), j \in 1..Len(numbers) : i # j => numbers[i] # numbers[j]

\* the points (x_j, f(x_j)) of a polynomial f at distinct non-zero x_j, at
\* least as many as f has coefficients
PolynomialInputs ==
  { [coefficients |-> in[1], numbers |-> in[2],
     values |-> [j \in 1..Len(in[2]) |-> evaluatePolynomial(in[1], in[2][j])]] :
      in \in { fx \in (SeqsUpTo(CoefficientSample, MaxPoints) \ {<<>>})
                        \X SeqsUpTo(NumberSample \ {0}, MaxPoints) :
                 Distinct(fx[2]) /\ Len(fx[2]) >= Len(fx[1]) } }

\* any share numbers, zeros and duplicates included, with any values
FreeInputs ==
  { [coefficients |-> <<>>, numbers |-> in[1], values |-> in[2]] :
      in \in { xy \in SeqsUpTo(NumberSample, MaxPoints) \X SeqsUpTo(ValueSample, MaxPoints) :
                 Len(xy[1]) = Len(xy[2]) } }

LagrangeInit ==
  /\ pc = "drawn"
  /\ splitIn = None
  /\ splitOut = None
  /\ chosen = None
  /\ recoverIn = None
  /\ recoverOut = None
  /\ probe = None
  /\ call = None
  /\ \E in \in PolynomialInputs \cup FreeInputs :
       lagrange = [coefficients |-> in.coefficients, numbers |-> in.numbers,
                   values |-> in.values, secret |-> None, multipliers |-> None]

\* the points [{x, y}, ...] of share numbers and values
Points(numbers, values) == [j \in 1..Len(numbers) |-> [x |-> numbers[j], y |-> values[j]]]

\* a call of lagrangeInterpolateAtZero(points)
Interpolate ==
  /\ pc = "drawn"
  /\ lagrange' = [lagrange EXCEPT
                    !.secret = lagrangeInterpolateAtZero(Points(lagrange.numbers,
                                                                 lagrange.values))]
  /\ pc' = "interpolated"
  /\ UNCHANGED <<splitIn, splitOut, chosen, recoverIn, recoverOut, probe, call>>

\* a call of computeLagrangeMultipliers(shareNumbers)
ComputeMultipliers ==
  /\ pc = "interpolated"
  /\ lagrange' = [lagrange EXCEPT
                    !.multipliers = computeLagrangeMultipliers(lagrange.numbers)]
  /\ pc' = "multiplied"
  /\ UNCHANGED <<splitIn, splitOut, chosen, recoverIn, recoverOut, probe, call>>

LagrangeNext == Interpolate \/ ComputeMultipliers

LagrangeSpec == LagrangeInit /\ [][LagrangeNext]_vars

\* C19 (Lagrange identity): from the points (x_j, f(x_j)) of a polynomial f
\* with d+1 coefficients at d+1 or more distinct non-zero x_j,
\* lagrangeInterpolateAtZero returns f(0).
LagrangeIdentity ==
  (pc \in {"interpolated", "multiplied"} /\ lagrange.coefficients # <<>>) =>
    /\ lagrange.secret.ok
    /\ lagrange.secret.value = lagrange.coefficients[1]

\* C19 happens: a polynomial of degree 2 with every coefficient non-zero was
\* interpolated from three points, none of them in increasing order
LagrangeIdentityReached ==
  /\ pc = "interpolated"
  /\ lagrange.coefficients = <<1026, 2052, 1>>
  /\ lagrange.numbers = <<2052, 1027, 2>>
  /\ lagrange.secret = Ok(1026)

RECURSIVE manualRecovery(_, _, _, _)
\* secret = (multipliers[0] * y1 + multipliers[1] * y2 + ...) % 2053
manualRecovery(multipliers, values, j, sum) ==
  IF j > Len(multipliers) THEN sum % 2053
  ELSE manualRecovery(multipliers, values, j + 1, sum + multipliers[j] * values[j])

\* the values 0, ..., 0, 1, 0, ..., 0 with the 1 at position j
UnitValues(len, j) == [m \in 1..len |-> IF m = j THEN 1 ELSE 0]

\* C20 (manual recovery with multipliers): for two or more distinct non-zero
\* share numbers computeLagrangeMultipliers returns one multiplier per share
\* number, in the order of the input (the multiplier at position j is what
\* the interpolation gives for the value 1 at x_j and 0 elsewhere), and the
\* sum of multiplier times value, mod 2053, is what lagrangeInterpolateAtZero
\* returns for the points; for fewer than two numbers, a zero or a duplicate
\* the call raises the error of that case.
ManualRecovery ==
  pc = "multiplied" =>
    LET numbers == lagrange.numbers
        multipliers == lagrange.multipliers
    IN IF Len(numbers) < 2
       THEN /\ ~multipliers.ok
            /\ multipliers.error
                 = Msg("At least two share numbers are required to compute multipliers.", <<>>)
       ELSE IF (\E j \in 1..Len(numbers) : numbers[j] = 0) \/ ~Distinct(numbers)
       THEN /\ ~multipliers.ok
            /\ multipliers.error \in {Msg("Share numbers cannot be zero.", <<>>),
                                      Msg("Share numbers must be unique.", <<>>)}
       ELSE /\ multipliers.ok
            /\ Len(multipliers.value) = Len(numbers)
            /\ lagrange.secret.ok
            /\ manualRecovery(multipliers.value, lagrange.values, 1, 0)
                 = lagrange.secret.value
            /\ \A j \in 1..Len(numbers) :
                 Ok(multipliers.value[j])
                   = lagrangeInterpolateAtZero(Points(numbers, UnitValues(Len(numbers), j)))

\* C20 happens: the multipliers of the share numbers 2052, 1, 2, in this
\* order, were computed and recover the value that the interpolation gives
ManualRecoveryReached ==
  /\ pc = "multiplied"
  /\ lagrange.numbers = <<2052, 1, 2>>
  /\ lagrange.values = <<1, 2052, 1>>
  /\ lagrange.multipliers.ok
  /\ Len(lagrange.multipliers.value) = 3
  /\ manualRecovery(lagrange.multipliers.value, lagrange.values, 1, 0)
       = lagrange.secret.value

\* ------------------------------------------------------------------------
\* core/field.ts on any integer that a JavaScript number holds
\* ------------------------------------------------------------------------

\* A number is an IEEE 754 double: an integer is held exactly when it has at
\* most 53 significant bits, and the result of an operation is rounded to
\* the nearest such value, ties to even.
MANTISSA_BITS == 53

\* the largest magnitude of the values below that are enumerated one by one
MaxSmallValue == 4200

RECURSIVE toBits(_)
\* the binary digits of a natural number, least significant first
toBits(n) == IF n = 0 THEN <<>> ELSE <<n % 2>> \o toBits(n \div 2)

\* an integer-valued number: its sign and the bits of its magnitude
Double(n) == [negative |-> n < 0, bits |-> toBits(IF n < 0 THEN 0 - n ELSE n)]

\* 2^e + d, for d < 2^e
PowerPlus(e, d) ==
  [i \in 1..(e + 1) |-> IF i = e + 1 THEN 1
                        ELSE IF i <= Len(toBits(d)) THEN toBits(d)[i] ELSE 0]

\* 2^e - 1
AllOnes(e) == [i \in 1..e |-> 1]

RECURSIVE remainderLoop(_, _, _)
\* magnitude % FIELD_PRIME, from the most significant bit down
remainderLoop(bits, i, r) ==
  Strict(r, IF i < 1 THEN r
            ELSE remainderLoop(bits, i - 1, (2 * r + bits[i]) % FIELD_PRIME))

\* mod(value) of a number: value % FIELD_PRIME is exact and has the sign of
\* value; a negative remainder is raised by FIELD_PRIME
modDouble(value) ==
  LET raise(result) == IF result < 0 THEN result + FIELD_PRIME ELSE result
  IN raise(IF value.negative THEN 0 - remainderLoop(value.bits, Len(value.bits), 0)
           ELSE remainderLoop(value.bits, Len(value.bits), 0))

RECURSIVE timesLoop(_, _, _, _)
\* the bits of the exact product of a magnitude and b >= 1
timesLoop(bits, b, i, carry) ==
  Strict(carry,
         IF i > Len(bits) THEN toBits(carry)
         ELSE <<(bits[i] * b + carry) % 2>>
                \o timesLoop(bits, b, i + 1, (bits[i] * b + carry) \div 2))

RECURSIVE increment(_, _)
\* the magnitude plus one, from bit i on
increment(bits, i) ==
  IF i > Len(bits) THEN <<1>>
  ELSE IF bits[i] = 0 THEN <<1>> \o SubSeq(bits, i + 1, Len(bits))
  ELSE <<0>> \o increment(bits, i + 1)

\* the double nearest to an integer: the bits below the 53 most significant
\* ones are rounded away, a tie goes to the even neighbour
roundToDouble(bits) ==
  LET dropped == Len(bits) - MANTISSA_BITS
      shift(kept) == [i \in 1..dropped |-> 0] \o kept
      round(kept, up) == shift(IF up THEN increment(kept, 1) ELSE kept)
  IN IF dropped <= 0 THEN bits
     ELSE round(SubSeq(bits, dropped + 1, Len(bits)),
                /\ bits[dropped] = 1
                /\ \/ \E i \in 1..(dropped - 1) : bits[i] = 1
                   \/ bits[dropped + 1] = 1)

\* modMul(a, b) = mod(a * b) for a number a and a field element b >= 1: the
\* product is rounded to a double before it is reduced
modMulDouble(a, b) ==
  modDouble([negative |-> a.negative, bits |-> roundToDouble(timesLoop(a.bits, b, 1, 0))])

\* integers near 0, and integers of 38 to 53 bits of both signs
FieldValues ==
  LET magnitudes == {PowerPlus(e, d) : e \in 38..(MANTISSA_BITS - 1),
                                      d \in {0, 1, 2, 3, 2052, 2053}}
                      \cup {AllOnes(e) : e \in 38..MANTISSA_BITS}
  IN {Double(n) : n \in (0 - MaxSmallValue)..MaxSmallValue}
       \cup {[negative |-> sign, bits |-> m] : sign \in BOOLEAN, m \in magnitudes}

FieldInit ==
  /\ pc = "field"
  /\ splitIn = None
  /\ splitOut = None
  /\ chosen = None
  /\ recoverIn = None
  /\ recoverOut = None
  /\ probe = None
  /\ lagrange = None
  /\ \E value \in FieldValues : call = [value |-> value, inverse |-> None, product |-> None]

\* modInv(value), and modMul(value, modInv(value)) when it returned.  The
\* first statement of modInv reduces value with mod.
InvertValue ==
  /\ pc = "field"
  /\ LET multiply(inverse) ==
           [call EXCEPT !.inverse = inverse,
                        !.product = IF inverse.ok
                                    THEN modMulDouble(call.value, inverse.value)
                                    ELSE None]
     IN call' = multiply(modInv(modDouble(call.value)))
  /\ pc' = "inverted"
  /\ UNCHANGED <<splitIn, splitOut, chosen, recoverIn, recoverOut, probe, lagrange>>

\* modMul(mod(value), modInv(value)): the product of two field elements
MultiplyReduced ==
  /\ pc = "inverted"
  /\ call.inverse.ok
  /\ call' = [call EXCEPT !.product = modMul(modDouble(call.value), call.inverse.value)]
  /\ pc' = "multiplied reduced"
  /\ UNCHANGED <<splitIn, splitOut, chosen, recoverIn, recoverOut, probe, lagrange>>

FieldNext == InvertValue \/ MultiplyReduced

FieldSpec == FieldInit /\ [][FieldNext]_vars

\* the product of the value and a field element is below 2^53, hence exact
ExactProduct(value) == Len(value.bits) + Len(toBits(FIELD_PRIME)) <= MANTISSA_BITS

InverseOrError ==
  IF modDouble(call.value) = 0
  THEN /\ ~call.inverse.ok
       /\ call.inverse.error = Msg("Attempted to invert zero in GF(2053).", <<>>)
  ELSE /\ call.inverse.ok
       /\ call.inverse.value \in 1..2052

\* C21 (field inverse), as stated: for every integer v with mod(v) # 0,
\* modInv(v) returns a value in 1..2052 and modMul(v, modInv(v)) = 1; for
\* every v with mod(v) = 0 modInv raises the invert-zero error.
FieldInverse ==
  pc = "inverted" =>
    /\ InverseOrError
    /\ modDouble(call.value) # 0 => call.product = 1

\* C21, amended: the inverse is in 1..2052 (or the error is raised) for every
\* integer v; modMul(v, modInv(v)) = 1 for every v whose product with a field
\* element is below 2^53; modMul(mod(v), modInv(v)) = 1 for every v.
FieldInverseAmended ==
  /\ pc = "inverted" =>
       /\ InverseOrError
       /\ (modDouble(call.value) # 0 /\ ExactProduct(call.value)) => call.product = 1
  /\ pc = "multiplied reduced" => call.product = 1

\* C21 happens: the negative of 2^40 + 2052, whose products are exact, was
\* inverted and multiplied by its inverse
FieldInverseReached ==
  /\ pc = "inverted"
  /\ call.value = [negative |-> TRUE, bits |-> PowerPlus(40, 2052)]
  /\ call.inverse.ok
  /\ call.product = 1

\* ------------------------------------------------------------------------
\* The two paths to a checksum share
\* ------------------------------------------------------------------------

\* the largest number of coefficients of a word polynomial
MaxCoefficients == 3

\* polynomials with the coefficients a, a + b, a + 2b, ... mod 2053
PolynomialPool(len) ==
  {[i \in 1..len |-> (a + b * (i - 1)) % FIELD_PRIME] : a \in {0, 100, 2052}, b \in {0, 1, 1026}}

\* the word polynomials of the two equivalence tests
TwoRowPolynomials ==
  << <<100, 50>>, <<200, 75>>, <<300, 100>>, <<400, 125>>, <<500, 150>>, <<600, 175>> >>

FourRowPolynomials ==
  << <<100, 50, 25>>, <<200, 75, 30>>, <<300, 100, 35>>,
     <<400, 125, 40>>, <<500, 150, 45>>, <<600, 175, 50>>,
     <<700, 200, 55>>, <<800, 225, 60>>, <<900, 250, 65>>,
     <<1000, 275, 70>>, <<1100, 300, 75>>, <<1200, 325, 80>> >>

\* lists of word polynomials of equal length: every row of three from the
\* pool, and the two lists of the tests
PolynomialLists ==
  UNION {[1..WORDS_PER_ROW -> PolynomialPool(len)] : len \in 0..MaxCoefficients}
    \cup {TwoRowPolynomials, FourRowPolynomials}

\* the values of x: share numbers, 0, a negative number, numbers from 2053 on
EvaluationPoints == {0 - 1, 0, 1, 2, 5, 2052, 2053, 4107}

PathInit ==
  /\ pc = "polynomials"
  /\ splitIn = None
  /\ splitOut = None
  /\ chosen = None
  /\ recoverIn = None
  /\ recoverOut = None
  /\ probe = None
  /\ lagrange = None
  /\ \E wordPolynomials \in PolynomialLists, x \in EvaluationPoints :
       call = [wordPolynomials |-> wordPolynomials, x |-> x, wordShares |-> None,
               pathARows |-> None, pathAGlobal |-> None,
               pathBRows |-> None, pathBGlobal |-> None]

\* Path A: the word polynomials are evaluated and the values are summed
EvaluatePathA ==
  /\ pc = "polynomials"
  /\ LET sum(wordShares) ==
           [call EXCEPT !.wordShares = wordShares,
                        !.pathARows = computeRowChecks(wordShares),
                        !.pathAGlobal = computeGlobalChecksum(wordShares)]
     IN call' = sum([i \in 1..Len(call.wordPolynomials) |->
                       evaluatePolynomial(call.wordPolynomials[i], call.x)])
  /\ pc' = "path A"
  /\ UNCHANGED <<splitIn, splitOut, chosen, recoverIn, recoverOut, probe, lagrange>>

\* Path B: the polynomials are summed and the sums are evaluated
EvaluatePathB ==
  /\ pc = "path A"
  /\ call' = [call EXCEPT
                !.pathBRows =
                   [row \in 1..(Len(call.wordPolynomials) \div WORDS_PER_ROW) |->
                      evaluatePolynomial(computeRowCheckPolynomials(call.wordPolynomials)[row],
                                         call.x)],
                !.pathBGlobal =
                   evaluatePolynomial(computeGlobalCheckPolynomial(call.wordPolynomials),
                                      call.x)]
  /\ pc' = "path B"
  /\ UNCHANGED <<splitIn, splitOut, chosen, recoverIn, recoverOut, probe, lagrange>>

PathNext == EvaluatePathA \/ EvaluatePathB

PathSpec == PathInit /\ [][PathNext]_vars

RECURSIVE PlainSum(_, _, _)
\* the sum of the values from..to of a list, without reduction
PlainSum(values, from, to) ==
  IF from > to THEN 0 ELSE values[from] + PlainSum(values, from + 1, to)

\* C22 (Path A equals Path B): for every row, the value at x of the sum of
\* the three polynomials of the row is the sum of the values at x of the
\* three polynomials, mod 2053, and the value at x of the sum of all word
\* polynomials is the sum of all their values at x, mod 2053; the checksums
\* that Path A computes from the word shares are these sums.
PathAEqualsPathB ==
  pc = "path B" =>
    /\ \A row \in 1..Len(call.pathBRows) :
         /\ call.pathBRows[row]
              = PlainSum(call.wordShares, (row - 1) * WORDS_PER_ROW + 1,
                         row * WORDS_PER_ROW) % 2053
         /\ call.pathBRows[row] = call.pathARows[row]
    /\ call.pathBGlobal = PlainSum(call.wordShares, 1, Len(call.wordShares)) % 2053
    /\ call.pathBGlobal = call.pathAGlobal
    /\ Len(call.pathARows) = Len(call.pathBRows)

\* C22 happens: both paths were taken for the twelve polynomials of degree 2
\* at x = 5, and the sums wrapped around 2053
PathAEqualsPathBReached ==
  /\ pc = "path B"
  /\ call.wordPolynomials = FourRowPolynomials
  /\ call.x = 5
  /\ Len(call.pathBRows) = 4
  /\ PlainSum(call.wordShares, 1, 12) > 2053
  /\ call.pathBGlobal = call.pathAGlobal

\* ------------------------------------------------------------------------
\* getRandomIntInclusive, one draw at a time
\* ------------------------------------------------------------------------

\* the largest number of words of a random source
MaxDraws == 3

\* 32-bit words as <<high half, low half>>: small ones, ones in the middle
\* and the ones next to 2^32
WordSample ==
  { <<0, 0>>, <<0, 3>>, <<0, 2053>>, <<32768, 7>>, <<65535, 64572>>,
    <<65535, 65531>>, <<65535, 65532>>, <<65535, 65535>> }

\* the values of max; the last one gives the range 0
MaxSample == {0, 1, 5, 6, 2052, 32767, 0 - 1}

\* the word 2^32 - 1 - n, for n < 65536
FromTop(n) == <<HALF - 1, HALF - 1 - n>>

DrawInit ==
  /\ splitIn = None
  /\ splitOut = None
  /\ chosen = None
  /\ recoverIn = None
  /\ recoverOut = None
  /\ probe = None
  /\ lagrange = None
  /\ \/ /\ pc = "random"
        /\ \E max \in MaxSample, len \in 1..MaxDraws :
             \E words \in [1..len -> WordSample] :
               call = [max |-> max, source |-> RandomSource(words),
                       rng |-> RandomSource(words), drawn |-> <<>>, result |-> None]
     \/ /\ pc = "words"
        /\ \E max \in MaxSample \ {0 - 1} :
             call = [max |-> max, first |-> None, last |-> None, above |-> None]

\* getRandomIntInclusive(max) up to the loop
EnterLoop ==
  /\ pc = "random"
  /\ IF call.max + 1 <= 0
     THEN /\ call' = [call EXCEPT !.result = Throw("Invalid range for randomness.", <<>>)]
          /\ pc' = "thrown"
     ELSE /\ call' = call
          /\ pc' = "loop"
  /\ UNCHANGED <<splitIn, splitOut, chosen, recoverIn, recoverOut, probe, lagrange>>

\* one iteration of the do/while loop: a word is drawn; a word below limit
\* ends the loop and the function.  The position of the source is kept
\* within its words (the source starts again after the last one), and a loop
\* that has seen every word of the source and one more is followed no further.
Draw ==
  /\ pc = "loop"
  /\ Len(call.drawn) <= MaxDraws
  /\ LET iterate(next) ==
           /\ call' = [call EXCEPT
                         !.rng = [next.rng EXCEPT
                                    !.pos = ((next.rng.pos - 1) % Len(next.rng.words)) + 1],
                         !.drawn = Append(call.drawn, next.value),
                         !.result = IF BelowLimit(next.value, call.max + 1)
                                    THEN Ok(WordRem(next.value, call.max + 1))
                                    ELSE None]
           /\ pc' = IF BelowLimit(next.value, call.max + 1) THEN "returned" ELSE "loop"
     IN iterate(getRandomValues(call.rng))
  /\ UNCHANGED <<splitIn, splitOut, chosen, recoverIn, recoverOut, probe, lagrange>>

\* what the first max+1 words, the last max+1 words below limit and the
\* words from limit on are mapped to: for each word whether it is accepted,
\* and value % range
ImageOfWords ==
  /\ pc = "words"
  /\ LET range == call.max + 1
         image(w) == [accepted |-> BelowLimit(w, range), value |-> WordRem(w, range)]
     IN call' = [call EXCEPT
                   !.first = [i \in 0..call.max |-> image(<<0, i>>)],
                   !.last = [i \in 0..call.max |->
                               image(FromTop(MaxUint32Rem(range) + call.max - i))],
                   !.above = [j \in 0..(MaxUint32Rem(range) - 1) |-> image(FromTop(j))]]
  /\ pc' = "images"
  /\ UNCHANGED <<splitIn, splitOut, chosen, recoverIn, recoverOut, probe, lagrange>>

DrawNext == EnterLoop \/ Draw \/ ImageOfWords

DrawSpec == DrawInit /\ [][DrawNext]_vars

\* the loop runs as long as it is not left
DrawLiveSpec == DrawSpec /\ WF_vars(Draw)

\* the bits of a 32-bit word, least significant first
WordBits(w) ==
  LET bit(half, i) == (half \div (2 ^ (i - 1))) % 2
  IN [i \in 1..32 |-> IF i <= 16 THEN bit(w[2], i) ELSE bit(w[1], i - 16)]

RECURSIVE BitsRem(_, _, _, _)
\* the number with these bits, modulo m
BitsRem(bits, i, r, m) == IF i < 1 THEN r ELSE BitsRem(bits, i - 1, (2 * r + bits[i]) % m, m)

\* 2^32 mod range
Excess(range) == BitsRem(PowerPlus(32, 0), 33, 0, range)

\* w < limit, i.e. 2^32 - 1 - w >= 2^32 mod range
Accepted(w, range) == (HALF - 1 - w[1]) > 0 \/ (HALF - 1 - w[2]) >= Excess(range)

\* the words of the source in the order of delivery, as far as drawn
Delivered(n) == [i \in 1..n |-> call.source.words[((i - 1) % Len(call.source.words)) + 1]]

\* C23 (rejection sampling): getRandomIntInclusive(max) returns the first
\* delivered word below limit = 2^32 - (2^32 mod (max+1)), mod (max+1); the
\* result is in 0..max, and the words before it were all at or above limit.
\* No modulo bias: limit is a multiple of max+1, the first max+1 words and
\* the last max+1 words below limit are accepted and mapped one-to-one onto
\* 0..max, and every word from limit on is rejected.
RejectionSampling ==
  /\ pc = "returned" =>
       LET range == call.max + 1
           n == Len(call.drawn)
       IN /\ call.drawn = Delivered(n)
          /\ Accepted(call.drawn[n], range)
          /\ \A i \in 1..(n - 1) : ~Accepted(call.drawn[i], range)
          /\ call.result = Ok(BitsRem(WordBits(call.drawn[n]), 32, 0, range))
          /\ call.result.value \in 0..call.max
          /\ call.result.value = getRandomIntInclusive(call.max, call.source).value.value
  /\ pc = "loop" => \A i \in 1..Len(call.drawn) : ~Accepted(call.drawn[i], call.max + 1)
  /\ pc = "images" =>
       /\ \A i \in 0..call.max :
            /\ call.first[i] = [accepted |-> TRUE, value |-> i]
            /\ call.last[i] = [accepted |-> TRUE, value |-> i]
       /\ \A j \in DOMAIN call.above : ~call.above[j].accepted
       /\ MaxUint32Rem(call.max + 1) = Excess(call.max + 1)

\* C23 happens: with max = 5 the words 2^32 - 1 and 2^32 - 4 were rejected
\* and the third word, 2^32 - 5, gave the result 5
RejectionSamplingReached ==
  /\ pc = "returned"
  /\ call.max = 5
  /\ call.drawn = << <<65535, 65535>>, <<65535, 65532>>, <<65535, 65531>> >>
  /\ call.result = Ok(5)

\* some word of the source is below limit
SourceDelivers == \E i \in 1..Len(call.source.words) : Accepted(call.source.words[i], call.max + 1)

\* C27 (termination of the random draw): once getRandomIntInclusive(max) is
\* in its loop and the source delivers a word below limit at some time, the
\* function returns; an iteration that draws a rejected word draws exactly
\* this one word and changes nothing else.
DrawTerminates ==
  /\ [](pc = "loop" /\ SourceDelivers => <>(pc = "returned"))
  /\ [][(pc = "loop" /\ pc' = "loop") =>
          /\ Len(call'.drawn) = Len(call.drawn) + 1
          /\ ~Accepted(call'.drawn[Len(call'.drawn)], call.max + 1)
          /\ call'.rng.pos = (call.rng.pos % Len(call.source.words)) + 1
          /\ call' = [call EXCEPT !.drawn = call'.drawn, !.rng = call'.rng]
          /\ call'.rng.words = call.rng.words]_vars

\* C27 happens: with max = 2052 two words were rejected, each followed by one
\* more draw, and the third word ended the loop
DrawTerminatesReached ==
  /\ pc = "returned"
  /\ call.max = 2052
  /\ call.drawn = << <<65535, 65535>>, <<65535, 64572>>, <<0, 2053>> >>
  /\ call.rng.pos = 1
  /\ call.result = Ok(0)

\* ------------------------------------------------------------------------
\* A split during which one evaluation returns a wrong value
\* ------------------------------------------------------------------------

\* the calls of evaluatePolynomial that splitMnemonic makes for one share:
\* one per word, one per row and one for the global polynomial
CallsPerShare(words) == Len(words) + Len(words) \div WORDS_PER_ROW + 1

\* a call of splitMnemonic(mnemonic, k, n) with faultController.active and a
\* targetCallIndex among the calls that the split makes
SplitMnemonicInjected ==
  /\ pc = "idle"
  /\ \E mnemonic \in {Mnemonic(SpinWords, TRUE), Mnemonic(Abandon24Words, TRUE)},
        k \in 2..MaxK, n \in 2..MaxN, rng \in {WideSource} :
       \E targetCallIndex \in 1..(n * CallsPerShare(mnemonic.words)) :
         /\ k <= n
         /\ splitIn' = [mnemonic |-> mnemonic, k |-> k, n |-> n, rng |-> rng,
                        targetCallIndex |-> targetCallIndex]
         /\ splitOut' = splitMnemonicInjected(mnemonic, k, n, rng, targetCallIndex)
  /\ pc' = "split"
  /\ UNCHANGED <<chosen, recoverIn, recoverOut, probe, lagrange, call>>

InjectNext == SplitMnemonicInjected

InjectSpec == Init /\ [][InjectNext]_vars

\* the share during whose construction the injected fault strikes
FaultyShare == ((splitIn.targetCallIndex - 1) \div CallsPerShare(splitIn.mnemonic.words)) + 1

\* C24 (split is all-or-nothing): when the two paths disagree while the
\* share of some number x is built, splitMnemonic raises a row or global
\* path-mismatch error that names x, and returns no share, the shares
\* 1..x-1 that were already built included.
SplitAllOrNothing ==
  pc = "split" =>
    /\ ~splitOut.ok
    /\ splitOut.error.text \in {"Row checksum path mismatch", "Global checksum path mismatch"}
    /\ splitOut.error.args[1] = FaultyShare
    /\ splitOut.shares = <<>>

\* C24 happens: the fault struck the row evaluation of the third share, after
\* two shares had been built
SplitAllOrNothingReached ==
  /\ pc = "split"
  /\ splitIn.n = 3
  /\ splitIn.targetCallIndex = 2 * CallsPerShare(splitIn.mnemonic.words) + 13
  /\ Len(splitIn.mnemonic.words) = 12
  /\ splitOut.error.text = "Row checksum path mismatch"
  /\ splitOut.error.args[1] = 3
  /\ splitOut.shares = <<>>

\* ------------------------------------------------------------------------
\* The shares as a function of the mnemonic, k, n and the random stream
\* ------------------------------------------------------------------------

RECURSIVE AcceptedStream(_, _, _, _)
\* the first count field elements that the words of a source give: the words
\* below limit, mod 2053, in the order of delivery, and the number of words
\* delivered up to the last of them
AcceptedStream(words, pos, count, elements) ==
  Strict(elements,
         IF Len(elements) = count THEN [elements |-> elements, delivered |-> pos - 1]
         ELSE AcceptedStream(words, pos + 1, count,
                             IF Accepted(words[((pos - 1) % Len(words)) + 1], FIELD_PRIME)
                             THEN Append(elements,
                                         BitsRem(WordBits(words[((pos - 1) % Len(words)) + 1]),
                                                 32, 0, FIELD_PRIME))
                             ELSE elements))

RECURSIVE PolynomialValue(_, _, _)
\* the coefficients c_1 + c_2 x + c_3 x^2 + ... from position i on, mod 2053
PolynomialValue(coefficients, x, i) ==
  IF i > Len(coefficients) THEN 0
  ELSE (coefficients[i] + x * PolynomialValue(coefficients, x, i + 1)) % 2053

\* C25 (determinism of split): a second run with the same mnemonic, k and n
\* and a source that delivers the same sequence of words returns the same
\* shares; the word shares are the values of the polynomials that the index
\* of the word and the next k-1 field elements of the stream make, and the
\* split draws no word beyond those (the checksum shares use no randomness).
SplitDeterminism ==
  (pc = "split" /\ splitOut.ok) =>
    LET words == splitIn.rng.words
        degree == splitIn.k - 1
        stream == AcceptedStream(words, 1, SplitWordCount * degree, <<>>)
        coefficients(i) ==
          <<wordlistIndexOf(splitIn.mnemonic.words[i])>>
            \o SubSeq(stream.elements, (i - 1) * degree + 1, i * degree)
    IN /\ splitMnemonic(splitIn.mnemonic, splitIn.k, splitIn.n,
                        RandomSource(words \o words)).shares = splitOut.shares
       /\ splitOut.rng.pos - 1 = stream.delivered
       /\ \A x \in 1..splitIn.n :
            \A i \in 1..SplitWordCount :
              splitOut.shares[x].wordShares[i] = PolynomialValue(coefficients(i), x, 1)

\* C25 happens: a 3-of-3 split of the 12-word vector drew its 24
\* coefficients from a source that also delivered rejected words
SplitDeterminismReached ==
  /\ pc = "split"
  /\ splitOut.ok
  /\ splitIn.k = 3
  /\ splitIn.rng = WideSource
  /\ SplitWordCount = 12
  /\ splitOut.rng.pos - 1 > 24

\* C26 (out-of-range recovered IDs): when the shares are well formed, the row checks and the global check
\* pass and some interpolated word ID is outside 1..2048, recoverMnemonic
\* returns with the range message for the first such position in
\* errors.generic, mnemonic null and success false; every element of a
\* returned mnemonic is the word of an ID in 1..2048, never the display
\* string of 0 or 2049..2052.
OutOfRangeRejected ==
  Recovered =>
    /\ ( /\ ~StructuralViolation(recoverIn)
         /\ Report.errors.row = <<>> /\ ~Report.errors.global
         /\ outsidePositions(interpolatedWords(recoverIn.shares, recoverIn.wordCount)) # {} )
       => /\ Report.errors.generic.text
               = "Recovered word is outside the BIP39 range (1-2048). Cannot form a valid mnemonic."
          /\ Report.errors.generic.args[1]
               \in outsidePositions(interpolatedWords(recoverIn.shares, recoverIn.wordCount))
          /\ \A i \in 1..(Report.errors.generic.args[1] - 1) :
               i \notin outsidePositions(interpolatedWords(recoverIn.shares,
                                                           recoverIn.wordCount))
          /\ Report.mnemonic = NullMnemonic
          /\ ~Report.success
    /\ \A i \in 1..Len(Report.mnemonic) : Report.mnemonic[i] \in 1..2048

\* C26 happens: the checks passed and the first ID outside the range was
\* above 2048
OutOfRangeRejectedReached ==
  /\ Recovered
  /\ Report.errors.row = <<>> /\ ~Report.errors.global
  /\ Report.errors.generic.text
       = "Recovered word is outside the BIP39 range (1-2048). Cannot form a valid mnemonic."
  /\ Report.errors.generic.args[2] > 2048
  /\ Report.mnemonic = NullMnemonic
  /\ ~Report.success

\* C28 (checksums blind below the threshold): for the shares of one split
\* with threshold k >= 3, recoverMnemonic on at least 2 and fewer than k of
\* them reports errors.row empty, errors.rowPathMismatch empty, errors.global
\* false and errors.globalPathMismatch false; when it fails, the failure is
\* the range check of step 4 or the BIP39 checksum.
ChecksumsBlindBelowThreshold ==
  ( /\ Recovered /\ Untampered
    /\ splitIn.k >= 3
    /\ Cardinality(chosen.selection) >= 2
    /\ Cardinality(chosen.selection) < splitIn.k )
  => /\ Report.errors.row = <<>>
     /\ Report.errors.rowPathMismatch = <<>>
     /\ ~Report.errors.global
     /\ ~Report.errors.globalPathMismatch
     /\ ~Report.success =>
          \/ Report.errors.bip39 /\ Report.errors.generic = NoMessage
          \/ /\ ~Report.errors.bip39
             /\ Report.errors.generic.text
                  = "Recovered word is outside the BIP39 range (1-2048). Cannot form a valid mnemonic."

\* C28 happens: two shares of a 3-of-n split went through all checksum
\* comparisons and were rejected by the BIP39 checksum alone
ChecksumsBlindBelowThresholdReached ==
  /\ Recovered /\ Untampered
  /\ splitIn.k = 3 /\ Cardinality(chosen.selection) = 2
  /\ Report.errors.row = <<>> /\ Report.errors.rowPathMismatch = <<>>
  /\ ~Report.errors.global /\ ~Report.errors.globalPathMismatch
  /\ Report.errors.bip39
  /\ ~Report.success

\* the orders a list of this length can be put in
Orders(len) ==
  {p \in [1..len -> 1..len] : \A a, b \in 1..len : p[a] = p[b] => a = b}

\* the report of recoverMnemonic on the share list of this run put in order p
PermutedReport(p) ==
  recoverMnemonic([recoverIn.shares EXCEPT
                     !.items = [s \in 1..Len(recoverIn.shares.items) |->
                                  recoverIn.shares.items[p[s]]]],
                  recoverIn.wordCount, recoverIn.strictValidation).report

\* the fields of a report that do not depend on the order of the shares
OrderFreeFields(report) ==
  <<report.mnemonic, report.success, report.errors.row, report.errors.global,
    report.errors.bip39, report.errors.rowPathMismatch,
    report.errors.globalPathMismatch>>

\* C29 (share order): for every share list and every permutation of it,
\* recoverMnemonic returns the same mnemonic, the same success flag and the
\* same row, global, bip39, rowPathMismatch and globalPathMismatch fields.
RecoverOrderIndependent ==
  Recovered =>
    \A p \in Orders(Len(recoverIn.shares.items)) :
      OrderFreeFields(PermutedReport(p)) = OrderFreeFields(Report)

\* C29 happens: three shares, one of them tampered with, were recovered from
\* with a row error, and the list in reverse order gives the same row error
RecoverOrderIndependentReached ==
  /\ Recovered
  /\ Len(recoverIn.shares.items) = 3
  /\ chosen.tamper # NoTamper
  /\ Report.errors.row # <<>>
  /\ PermutedReport([s \in 1..3 |-> 4 - s]).errors.row = Report.errors.row

\* C30 (consistency of the report): success implies errors.generic is null
\* and a mnemonic is returned; a returned mnemonic implies errors.row empty,
\* errors.global false and every recovered ID in 1..2048 (the mnemonic holds
\* the words of these IDs); errors.generic set implies success false;
\* errors.row equals errors.rowPathMismatch and errors.global equals
\* errors.globalPathMismatch.
ReportConsistent ==
  Recovered =>
    /\ Report.success =>
         Report.errors.generic = NoMessage /\ Report.mnemonic # NullMnemonic
    /\ Report.mnemonic # NullMnemonic =>
         /\ Report.errors.row = <<>>
         /\ ~Report.errors.global
         /\ ~StructuralViolation(recoverIn)
         /\ outsidePositions(interpolatedWords(recoverIn.shares, recoverIn.wordCount)) = {}
         /\ Report.mnemonic = interpolatedWords(recoverIn.shares, recoverIn.wordCount)
    /\ Report.errors.generic # NoMessage => ~Report.success
    /\ Report.errors.row = Report.errors.rowPathMismatch
    /\ Report.errors.global = Report.errors.globalPathMismatch

\* C30 happens: a mnemonic was returned without success, the BIP39 checksum
\* being the only check that failed
ReportConsistentReached ==
  /\ Recovered
  /\ Report.mnemonic # NullMnemonic
  /\ ~Report.success
  /\ Report.errors.generic = NoMessage
  /\ Report.errors.row = Report.errors.rowPathMismatch
  /\ Report.errors.global = Report.errors.globalPathMismatch

====
